---- MODULE Spec2Model ----
(***************************************************************************)
(* Model of the comsdk graph engine (src/comsdk/graph.py) together with    *)
(* the parts of src/comsdk/edge.py, src/comsdk/misc.py and                 *)
(* src/comsdk/parser.py that the engine's behaviour depends on.            *)
(*                                                                         *)
(* Python's None is modelled as the empty tuple <<>> and a present value v *)
(* as <<v>> wherever the value is a record or a list; a state reference    *)
(* that may be None uses the name NoState.                                 *)
(***************************************************************************)
EXTENDS Integers, Sequences, FiniteSets, TLC

\* ------------------------------------------------------------------ bounds
MaxSeed == 2
MaxLen == 2
MaxRuns == 2
RecursionLimit == 12
MaxNames == 3
MaxJunk == 4

\* ------------------------------------------------------- generic helpers
None == <<>>
Some(v) == <<v>>
NoState == "None"

Range(f) == {f[x] : x \in DOMAIN f}

Last(s) == s[Len(s)]

\* indices i of seq s that satisfy Test(s[i]), in ascending order
RECURSIVE FilterIdx(_, _, _)
FilterIdx(flags, i, acc) ==
    IF i > Len(flags) THEN acc
    ELSE FilterIdx(flags, i + 1, IF flags[i] THEN Append(acc, i) ELSE acc)

\* ------------------------------------------------- misc.py: key paths
\* A key path is a bare key (d[key]), a sequence of keys, or an
\* ArrayItemGetter(key_path_to_array, i).
KeyPath(k) == [t |-> "key", path |-> <<k>>, i |-> 0]
SeqPath(p) == [t |-> "seq", path |-> p, i |-> 0]
ArrayItemGetter(key_path_to_array, i) == [t |-> "aig", path |-> key_path_to_array, i |-> i]

\* reduce(lambda d_, key_: d_.get(key_, {}), keys, d)
RECURSIVE ReduceGet(_, _)
ReduceGet(d, keys) ==
    IF keys = <<>> THEN d
    ELSE IF Head(keys) \in DOMAIN d THEN ReduceGet(d[Head(keys)], Tail(keys))
    ELSE <<>>

\* recursive_get raises KeyError / IndexError on a missing bare key or on an
\* array index out of range
CanGet(d, kp) ==
    CASE kp.t = "key" -> kp.path[1] \in DOMAIN d
      [] kp.t = "seq" -> TRUE
      [] kp.t = "aig" -> kp.i + 1 \in DOMAIN ReduceGet(d, kp.path)

recursive_get(d, kp) ==
    CASE kp.t = "key" -> d[kp.path[1]]
      [] kp.t = "seq" -> ReduceGet(d, kp.path)
      [] kp.t = "aig" -> ReduceGet(d, kp.path)[kp.i + 1]

\* d with the value at the (existing or new) nested path set to val;
\* setdefault(key, {}) creates the missing intermediate dictionaries
RECURSIVE SetAt(_, _, _)
SetAt(d, keys, val) ==
    IF Len(keys) = 1
    THEN (Head(keys) :> val) @@ d
    ELSE LET sub == IF Head(keys) \in DOMAIN d THEN d[Head(keys)] ELSE <<>>
         IN (Head(keys) :> SetAt(sub, Tail(keys), val)) @@ d

\* the keys lead to a value of d: reduce(... d_.get(key_, {}) ...) returns that
\* value and not a new {}
RECURSIVE HasPath(_, _)
HasPath(d, keys) ==
    keys = <<>> \/ (Head(keys) \in DOMAIN d /\ HasPath(d[Head(keys)], Tail(keys)))

\* array_[keys.i] = val raises IndexError beyond the end of the array
CanSet(d, kp) ==
    kp.t = "aig" /\ HasPath(d, kp.path) => kp.i + 1 \in DOMAIN ReduceGet(d, kp.path)

\* with an ArrayItemGetter whose array is absent, array_ is the new {} that
\* recursive_get has returned: the item is set in it and d stays as it is
recursive_set(d, kp, val) ==
    CASE kp.t = "key" -> (kp.path[1] :> val) @@ d
      [] kp.t = "seq" -> SetAt(d, kp.path, val)
      [] kp.t = "aig" ->
            LET array_ == ReduceGet(d, kp.path)
            IN IF HasPath(d, kp.path)
               THEN SetAt(d, kp.path, [array_ EXCEPT ![kp.i + 1] = val])
               ELSE d

\* ------------------------------------------------- misc.py: ProxyDict
\* for rel_key in relative_keys: for inner_key in recursive_get(data,
\* rel_key).keys(): self._keys_mappings[inner_key] = list(rel_key) + [inner_key]
RECURSIVE RelativeMappings(_, _, _)
RelativeMappings(data, relative_keys, km) ==
    IF relative_keys = <<>> THEN km
    ELSE LET rel_key == Head(relative_keys)
             inner == [k \in DOMAIN ReduceGet(data, rel_key) |-> SeqPath(Append(rel_key, k))]
         IN RelativeMappings(data, Tail(relative_keys), inner @@ km)

\* the relative sub-dictionaries applied last
ProxyDictInit_relative_last(data, relative_keys, keys_mappings) ==
    RelativeMappings(data, relative_keys, keys_mappings @@ [k \in DOMAIN data |-> KeyPath(k)])

\* ProxyDict.__init__: every root key maps to itself, the keys of the
\* relative sub-dictionaries override them, the explicit mappings override
\* both
ProxyDictInit(data, relative_keys, keys_mappings) ==
    keys_mappings @@ RelativeMappings(data, relative_keys, [k \in DOMAIN data |-> KeyPath(k)])

\* ProxyDict.__init__ without relative keys
ProxyKeysMappings(data, keys_mappings) == ProxyDictInit(data, <<>>, keys_mappings)

ProxyContains(km, key) == key \in DOMAIN km

ProxyGet(data, km, key) == recursive_get(data, km[key])

ProxyCanGet(data, km, key) == key \in DOMAIN km /\ CanGet(data, km[key])

\* __setitem__: the record and the mappings after view[key] = value
ProxySetItem(data, km, default_relative_key, key, value) ==
    IF key \in DOMAIN km
    THEN [data |-> recursive_set(data, km[key], value), km |-> km]
    ELSE [data |-> recursive_set(data, SeqPath(Append(default_relative_key, key)), value),
          km |-> (key :> SeqPath(Append(default_relative_key, key))) @@ km]

\* __setitem__ with default_relative_key = (): the record afterwards
ProxySet(data, km, key, value) == ProxySetItem(data, km, <<>>, key, value).data

\* ------------------------------------- user functions (src/test_funcs)
\* A transform is applied to the mapped view km of the record and gives the
\* changed record. CanTransform is false where the Python function raises
\* (a key it reads is absent from the view). zero_predicate,
\* negativeness_predicate, fail_if_negative, fail_if_zero and
\* selector_by_sign have no counterpart in src/test_funcs: they are callables
\* handed to Func(func = ...) by the author of a graph, and so is
\* clear_record, which calls clear() on the view it is given.
TransformReads(name) ==
    CASE name \in {"increment_a_edge", "increment_a_double", "decrement_a_edge"} -> {"a"}
      [] name \in {"fail_if_negative", "fail_if_zero"} -> {"a"}
      [] name \in {"increment_b_edge"} -> {"b"}
      [] OTHER -> {}

\* the key a transform assigns through the view
TransformWrites(name, data, km) ==
    CASE name \in {"increment_a_edge", "increment_a_double", "decrement_a_edge"} -> {"a"}
      [] name \in {"increment_b_edge"} -> {"b"}
      [] name = "fail_if_negative" ->
            IF ProxyGet(data, km, "a") < 0 THEN {"__EXCEPTION__"} ELSE {}
      [] name = "fail_if_zero" ->
            IF ProxyGet(data, km, "a") = 0 THEN {"__EXCEPTION__"} ELSE {}
      [] OTHER -> {}

CanTransform(name, data, km) ==
    \A k \in TransformReads(name) : ProxyCanGet(data, km, k)

Transform(name, data, km) ==
    CASE name = "increment_a_edge" -> ProxySet(data, km, "a", ProxyGet(data, km, "a") + 1)
      [] name = "increment_a_double" -> ProxySet(data, km, "a", ProxyGet(data, km, "a") * 2)
      [] name = "decrement_a_edge" -> ProxySet(data, km, "a", ProxyGet(data, km, "a") - 1)
      [] name = "increment_b_edge" -> ProxySet(data, km, "b", ProxyGet(data, km, "b") + 1)
      [] name = "fail_if_negative" ->
            IF ProxyGet(data, km, "a") < 0
            THEN ProxySet(data, km, "__EXCEPTION__", "failed") ELSE data
      [] name = "fail_if_zero" ->
            IF ProxyGet(data, km, "a") = 0
            THEN ProxySet(data, km, "__EXCEPTION__", "failed") ELSE data
      [] name = "clear_record" -> <<>>
      [] OTHER -> data

\* Func() without module and name is the identity lambda: used as a guard it
\* returns the view itself, which is true unless it is an empty dict (a
\* ProxyDict has no length and is always true).
Predicate(name, data, km, isProxy) ==
    CASE name = "nonzero_predicate" -> ProxyGet(data, km, "a") # 0
      [] name = "zero_predicate" -> ProxyGet(data, km, "a") = 0
      [] name = "positiveness_predicate" -> ProxyGet(data, km, "a") > 0
      [] name = "nonpositiveness_predicate" -> ProxyGet(data, km, "a") <= 0
      [] name = "negativeness_predicate" -> ProxyGet(data, km, "a") < 0
      [] name = "true_predicate" -> TRUE
      [] OTHER -> isProxy \/ DOMAIN data # {}

\* Selector.func: the dummy selector selects all ntransf transitions
SelectorFunc(sel, data) ==
    CASE sel.name = "" -> [i \in 1..sel.ntransf |-> TRUE]
      [] sel.name = "selector_a_positive" -> <<data["a"] > 0, ~(data["a"] > 0)>>
      [] sel.name = "selector_a_nonpositive" -> <<data["a"] <= 0, ~(data["a"] <= 0)>>
      [] sel.name = "branch_selector" -> <<TRUE, FALSE>>
      [] sel.name = "selector_by_sign" ->
            IF data["a"] > 0 THEN <<TRUE, TRUE>>
            ELSE IF data["a"] = 0 THEN <<FALSE, FALSE>> ELSE <<>>
      [] OTHER -> <<>>

Selector(ntransf, name) == [ntransf |-> ntransf, name |-> name]

\* ------------------------------------------------- edge.py / graph.py
Edge(id, predicate, morphism, order, mandatory_keys) ==
    [id |-> id, pred_f |-> predicate, morph_f |-> morphism, order |-> order,
     mandatory_keys |-> mandatory_keys]

Transfer(edge, output_state) == [edge |-> edge, output_state |-> output_state]

ImplicitParallelizationInfo(array_keys_mapping, branches_number, branch_i) ==
    [array_keys_mapping |-> array_keys_mapping, branches_number |-> branches_number,
     branch_i |-> branch_i]

\* the callables a state's run can hand back
transfer_to_termination == [kind |-> "term", transfers |-> <<>>, akm |-> None,
                            ipi |-> None, state |-> NoState, dkm |-> <<>>]
PartialTransfer(t, dkm) == [kind |-> "partial", transfers |-> <<t>>, akm |-> None,
                            ipi |-> None, state |-> NoState, dkm |-> dkm]
MorphClosure(ts, akm, ipi, state) == [kind |-> "morph", transfers |-> ts, akm |-> akm,
                                      ipi |-> ipi, state |-> state, dkm |-> <<>>]

\* ------------------------------------------------------------- graphs
\* The graphs the engine is run on. Each gives the State objects, their
\* transitions in connect_to order, the named selectors, the array-key
\* mappings, the Graph object's initial and terminal state and, when a state
\* is replaced by a subgraph, the subgraph's Graph object.
NoSub == [state |-> NoState, init_state |-> NoState, term_state |-> NoState]
e0(id) == Edge(id, "", "", 0, <<>>)

GSeq ==
    [states |-> {"B", "M", "E"}, init_state |-> "B", term_state |-> "E",
     transfers |-> [B |-> <<Transfer(Edge("inc", "", "increment_a_edge", 0, <<>>), "M")>>,
                    M |-> <<Transfer(Edge("dbl", "", "increment_a_double", 0, <<>>), "E")>>,
                    E |-> <<>>],
     selectors |-> <<>>, akm |-> <<>>, sub |-> NoSub]

GCyc ==
    [states |-> {"B", "S", "E"}, init_state |-> "B", term_state |-> "E",
     transfers |-> [B |-> <<Transfer(e0("in"), "S")>>,
                    S |-> <<Transfer(Edge("loop", "nonzero_predicate", "decrement_a_edge", 0, <<>>), "S"),
                            Transfer(Edge("exit", "zero_predicate", "", 0, <<>>), "E")>>,
                    E |-> <<>>],
     selectors |-> <<>>, akm |-> <<>>, sub |-> NoSub]

\* two branches of equal length joining at J
GDiamond ==
    [states |-> {"B", "S", "A", "C", "J", "E"}, init_state |-> "B", term_state |-> "E",
     transfers |-> [B |-> <<Transfer(e0("in"), "S")>>,
                    S |-> <<Transfer(Edge("sa", "", "increment_a_double", 0, <<>>), "A"),
                            Transfer(Edge("sc", "", "increment_b_edge", 1, <<>>), "C")>>,
                    A |-> <<Transfer(e0("aj"), "J")>>,
                    C |-> <<Transfer(e0("cj"), "J")>>,
                    J |-> <<Transfer(Edge("je", "", "increment_a_edge", 0, <<>>), "E")>>,
                    E |-> <<>>],
     selectors |-> <<>>, akm |-> <<>>, sub |-> NoSub]

\* two branches of unequal length joining at J; the guard of D's edge fails
\* for a <= 0 after the shorter branch has arrived at J
GUneq ==
    [states |-> {"B", "S", "A", "C", "D", "J", "E"}, init_state |-> "B", term_state |-> "E",
     transfers |-> [B |-> <<Transfer(e0("in"), "S")>>,
                    S |-> <<Transfer(Edge("sc", "", "increment_b_edge", 1, <<>>), "C"),
                            Transfer(Edge("sa", "", "increment_a_edge", 0, <<>>), "A")>>,
                    A |-> <<Transfer(e0("aj"), "J")>>,
                    C |-> <<Transfer(e0("cd"), "D")>>,
                    D |-> <<Transfer(Edge("dj", "positiveness_predicate", "increment_a_double", 0, <<>>), "J")>>,
                    J |-> <<Transfer(Edge("je", "", "increment_b_edge", 0, <<>>), "E")>>,
                    E |-> <<>>],
     selectors |-> <<>>, akm |-> <<>>, sub |-> NoSub]

\* a state whose selector vector is empty, all-false or all-true by the
\* sign of a, run by the main loop
GSel ==
    [states |-> {"B", "S", "X", "Y", "E"}, init_state |-> "B", term_state |-> "E",
     transfers |-> [B |-> <<Transfer(e0("in"), "S")>>,
                    S |-> <<Transfer(Edge("sx", "", "increment_a_edge", 0, <<>>), "X"),
                            Transfer(Edge("sy", "", "increment_b_edge", 0, <<>>), "Y")>>,
                    X |-> <<Transfer(e0("xe"), "E")>>,
                    Y |-> <<Transfer(e0("ye"), "E")>>,
                    E |-> <<>>],
     selectors |-> [S |-> "selector_by_sign"], akm |-> <<>>, sub |-> NoSub]

\* state S is replaced by the subgraph G0 -> G1 -> G2
GSub ==
    [states |-> {"B", "S", "E", "G0", "G1", "G2"}, init_state |-> "B", term_state |-> "E",
     transfers |-> [B |-> <<Transfer(Edge("bs", "", "increment_a_edge", 0, <<>>), "S")>>,
                    S |-> <<Transfer(Edge("se", "", "increment_b_edge", 0, <<>>), "E")>>,
                    E |-> <<>>,
                    G0 |-> <<Transfer(Edge("g01", "", "increment_a_double", 0, <<>>), "G1")>>,
                    G1 |-> <<Transfer(Edge("g12", "", "increment_a_edge", 0, <<>>), "G2")>>,
                    G2 |-> <<>>],
     selectors |-> <<>>, akm |-> <<>>,
     sub |-> [state |-> "S", init_state |-> "G0", term_state |-> "G2"]]

\* a join state S with two incoming edges is replaced by the subgraph G0 -> G1
GSubJoin ==
    [states |-> {"B", "P", "A", "C", "S", "E", "G0", "G1"}, init_state |-> "B", term_state |-> "E",
     transfers |-> [B |-> <<Transfer(e0("in"), "P")>>,
                    P |-> <<Transfer(e0("pa"), "A"), Transfer(e0("pc"), "C")>>,
                    A |-> <<Transfer(e0("as"), "S")>>,
                    C |-> <<Transfer(e0("cs"), "S")>>,
                    S |-> <<Transfer(Edge("se", "", "increment_b_edge", 0, <<>>), "E")>>,
                    E |-> <<>>,
                    G0 |-> <<Transfer(Edge("g01", "", "increment_a_edge", 0, <<>>), "G1")>>,
                    G1 |-> <<>>],
     selectors |-> <<>>, akm |-> <<>>,
     sub |-> [state |-> "S", init_state |-> "G0", term_state |-> "G1"]]

\* GSub with the subgraph's states spliced in place of S
GSubFlat ==
    [states |-> {"B", "E", "G0", "G1", "G2"}, init_state |-> "B", term_state |-> "E",
     transfers |-> [B |-> <<Transfer(Edge("bs", "", "increment_a_edge", 0, <<>>), "G0")>>,
                    G0 |-> <<Transfer(Edge("g01", "", "increment_a_double", 0, <<>>), "G1")>>,
                    G1 |-> <<Transfer(Edge("g12", "", "increment_a_edge", 0, <<>>), "G2")>>,
                    G2 |-> <<Transfer(Edge("se", "", "increment_b_edge", 0, <<>>), "E")>>,
                    E |-> <<>>],
     selectors |-> <<>>, akm |-> <<>>, sub |-> NoSub]

\* GSubJoin with the subgraph's states spliced in place of S
GSubJoinFlat ==
    [states |-> {"B", "P", "A", "C", "E", "G0", "G1"}, init_state |-> "B", term_state |-> "E",
     transfers |-> [B |-> <<Transfer(e0("in"), "P")>>,
                    P |-> <<Transfer(e0("pa"), "A"), Transfer(e0("pc"), "C")>>,
                    A |-> <<Transfer(e0("as"), "G0")>>,
                    C |-> <<Transfer(e0("cs"), "G0")>>,
                    G0 |-> <<Transfer(Edge("g01", "", "increment_a_edge", 0, <<>>), "G1")>>,
                    G1 |-> <<Transfer(Edge("se", "", "increment_b_edge", 0, <<>>), "E")>>,
                    E |-> <<>>],
     selectors |-> <<>>, akm |-> <<>>, sub |-> NoSub]

\* implicit parallelization: P fans out over data["arr"], whose element each
\* branch sees under the key "a"; the branches join at the terminal state E
GPar ==
    [states |-> {"B", "P", "X", "E"}, init_state |-> "B", term_state |-> "E",
     transfers |-> [B |-> <<Transfer(e0("in"), "P")>>,
                    P |-> <<Transfer(Edge("px", "", "increment_a_edge", 0, <<>>), "X")>>,
                    X |-> <<Transfer(Edge("xe", "", "increment_a_double", 0, <<>>), "E")>>,
                    E |-> <<>>],
     selectors |-> <<>>, akm |-> [P |-> [a |-> <<"arr">>]], sub |-> NoSub]

\* as GPar, with a transition leaving the terminal state
GParOut ==
    [states |-> {"B", "P", "E", "F"}, init_state |-> "B", term_state |-> "E",
     transfers |-> [B |-> <<Transfer(e0("in"), "P")>>,
                    P |-> <<Transfer(Edge("pe", "", "increment_a_edge", 0, <<>>), "E")>>,
                    E |-> <<Transfer(Edge("ef", "", "increment_b_edge", 0, <<>>), "F")>>,
                    F |-> <<>>],
     selectors |-> <<>>, akm |-> [P |-> [a |-> <<"arr">>]], sub |-> NoSub]

\* two mutually exclusive guarded branches that meet again at J
GExcl ==
    [states |-> {"B", "S", "X", "Y", "J", "E"}, init_state |-> "B", term_state |-> "E",
     transfers |-> [B |-> <<Transfer(e0("in"), "S")>>,
                    S |-> <<Transfer(Edge("sx", "positiveness_predicate", "increment_a_edge", 0, <<>>), "X"),
                            Transfer(Edge("sy", "nonpositiveness_predicate", "increment_b_edge", 0, <<>>), "Y")>>,
                    X |-> <<Transfer(e0("xj"), "J")>>,
                    Y |-> <<Transfer(e0("yj"), "J")>>,
                    J |-> <<Transfer(e0("je"), "E")>>,
                    E |-> <<>>],
     selectors |-> <<>>, akm |-> <<>>, sub |-> NoSub]

\* a fan-out one branch of which ends in T, a state without transitions,
\* while the other branch is on its way to E
GAbandon ==
    [states |-> {"B", "S", "A", "C", "D", "T", "E"}, init_state |-> "B", term_state |-> "E",
     transfers |-> [B |-> <<Transfer(e0("in"), "S")>>,
                    S |-> <<Transfer(e0("sa"), "A"), Transfer(e0("sc"), "C")>>,
                    A |-> <<Transfer(Edge("at", "", "increment_a_edge", 0, <<>>), "T")>>,
                    C |-> <<Transfer(Edge("cd", "", "increment_b_edge", 0, <<>>), "D")>>,
                    D |-> <<Transfer(Edge("de", "", "increment_b_edge", 0, <<>>), "E")>>,
                    T |-> <<>>,
                    E |-> <<>>],
     selectors |-> <<>>, akm |-> <<>>, sub |-> NoSub]

\* an implicit-parallel state with two outgoing transitions
GMulti ==
    [states |-> {"B", "P", "X", "Y", "E"}, init_state |-> "B", term_state |-> "E",
     transfers |-> [B |-> <<Transfer(e0("in"), "P")>>,
                    P |-> <<Transfer(Edge("px", "", "increment_a_edge", 0, <<>>), "X"),
                            Transfer(Edge("py", "", "increment_a_edge", 0, <<>>), "Y")>>,
                    X |-> <<Transfer(e0("xe"), "E")>>,
                    Y |-> <<Transfer(e0("ye"), "E")>>,
                    E |-> <<>>],
     selectors |-> <<>>, akm |-> [P |-> [a |-> <<"arr">>]], sub |-> NoSub]

\* an edge with the mandatory key "c"
GMand ==
    [states |-> {"B", "M", "E"}, init_state |-> "B", term_state |-> "E",
     transfers |-> [B |-> <<Transfer(Edge("bm", "", "increment_a_edge", 0, <<"c">>), "M")>>,
                    M |-> <<Transfer(Edge("me", "", "increment_b_edge", 0, <<>>), "E")>>,
                    E |-> <<>>],
     selectors |-> <<>>, akm |-> <<>>, sub |-> NoSub]

\* a state with two self-loops that have different guards
GTwoLoops ==
    [states |-> {"B", "S", "E"}, init_state |-> "B", term_state |-> "E",
     transfers |-> [B |-> <<Transfer(e0("in"), "S")>>,
                    S |-> <<Transfer(Edge("down", "positiveness_predicate", "decrement_a_edge", 0, <<>>), "S"),
                            Transfer(Edge("up", "negativeness_predicate", "increment_a_edge", 0, <<>>), "S"),
                            Transfer(Edge("exit", "zero_predicate", "", 0, <<>>), "E")>>,
                    E |-> <<>>],
     selectors |-> <<>>, akm |-> <<>>, sub |-> NoSub]

\* an acyclic graph in which J is a direct successor of the two branching
\* states P and Q
GReconv ==
    [states |-> {"B", "P", "Q", "R", "J", "E"}, init_state |-> "B", term_state |-> "E",
     transfers |-> [B |-> <<Transfer(e0("in"), "P")>>,
                    P |-> <<Transfer(e0("pj"), "J"), Transfer(e0("pq"), "Q")>>,
                    Q |-> <<Transfer(e0("qj"), "J"), Transfer(e0("qr"), "R")>>,
                    R |-> <<Transfer(e0("re"), "E")>>,
                    J |-> <<Transfer(Edge("je", "", "increment_a_edge", 0, <<>>), "E")>>,
                    E |-> <<>>],
     selectors |-> <<>>, akm |-> <<>>, sub |-> NoSub]

\* transforms that set the error marker: in the main loop for a < 0, inside
\* the transfer function of S for a = 0
GFail ==
    [states |-> {"B", "S", "A", "C", "J", "E"}, init_state |-> "B", term_state |-> "E",
     transfers |-> [B |-> <<Transfer(Edge("in", "", "fail_if_negative", 0, <<>>), "S")>>,
                    S |-> <<Transfer(Edge("sa", "", "fail_if_zero", 0, <<>>), "A"),
                            Transfer(Edge("sc", "", "increment_b_edge", 0, <<>>), "C")>>,
                    A |-> <<Transfer(Edge("aj", "", "increment_a_edge", 0, <<>>), "J")>>,
                    C |-> <<Transfer(Edge("cj", "", "increment_b_edge", 0, <<>>), "J")>>,
                    J |-> <<Transfer(Edge("je", "", "increment_a_edge", 0, <<>>), "E")>>,
                    E |-> <<>>],
     selectors |-> <<>>, akm |-> <<>>, sub |-> NoSub]

\* a join J with three incoming edges, the third of which (D -> J) is taken
\* only for a < 0: for a >= 0 both branches of S are suspended at J
GStall ==
    [states |-> {"B", "S", "A", "C", "D", "J", "E"}, init_state |-> "B", term_state |-> "E",
     transfers |-> [B |-> <<Transfer(e0("in"), "S")>>,
                    S |-> <<Transfer(Edge("sa", "", "increment_a_edge", 0, <<>>), "A"),
                            Transfer(Edge("sc", "", "increment_b_edge", 0, <<>>), "C"),
                            Transfer(Edge("sd", "negativeness_predicate", "increment_b_edge", 0, <<>>), "D")>>,
                    A |-> <<Transfer(e0("aj"), "J")>>,
                    C |-> <<Transfer(e0("cj"), "J")>>,
                    D |-> <<Transfer(e0("dj"), "J")>>,
                    J |-> <<Transfer(Edge("je", "", "increment_a_edge", 0, <<>>), "E")>>,
                    E |-> <<>>],
     selectors |-> <<>>, akm |-> <<>>, sub |-> NoSub]

\* a state whose transitions are declared in descending order and whose
\* selector takes its first entry for a > 0 and its second otherwise; Y has
\* no transition
GSelOrd ==
    [states |-> {"B", "S", "X", "Y", "E"}, init_state |-> "B", term_state |-> "E",
     transfers |-> [B |-> <<Transfer(e0("in"), "S")>>,
                    S |-> <<Transfer(Edge("sy", "", "increment_b_edge", 1, <<>>), "Y"),
                            Transfer(Edge("sx", "", "increment_a_edge", 0, <<>>), "X")>>,
                    X |-> <<Transfer(e0("xe"), "E")>>,
                    Y |-> <<>>,
                    E |-> <<>>],
     selectors |-> [S |-> "selector_a_positive"], akm |-> <<>>, sub |-> NoSub]

\* a join J of the branches A and C that has a loop on itself: its threshold
\* is 2 and one of its three incoming edges is looped
GLoopJoin ==
    [states |-> {"B", "S", "A", "C", "J", "E"}, init_state |-> "B", term_state |-> "E",
     transfers |-> [B |-> <<Transfer(e0("in"), "S")>>,
                    S |-> <<Transfer(e0("sa"), "A"),
                            Transfer(Edge("sc", "", "increment_b_edge", 0, <<>>), "C")>>,
                    A |-> <<Transfer(e0("aj"), "J")>>,
                    C |-> <<Transfer(e0("cj"), "J")>>,
                    J |-> <<Transfer(Edge("loop", "positiveness_predicate", "decrement_a_edge", 0, <<>>), "J"),
                            Transfer(Edge("exit", "nonpositiveness_predicate", "", 0, <<>>), "E")>>,
                    E |-> <<>>],
     selectors |-> <<>>, akm |-> <<>>, sub |-> NoSub]

\* the transform of B -> M empties the record; M -> E has the default guard
GClear ==
    [states |-> {"B", "M", "E"}, init_state |-> "B", term_state |-> "E",
     transfers |-> [B |-> <<Transfer(Edge("clr", "", "clear_record", 0, <<>>), "M")>>,
                    M |-> <<Transfer(Edge("me", "", "", 0, <<>>), "E")>>,
                    E |-> <<>>],
     selectors |-> <<>>, akm |-> <<>>, sub |-> NoSub]

GraphIds == {"seq", "cyc", "diamond", "uneq", "sel", "sub", "subjoin", "par", "parout",
             "subflat", "subjoinflat", "excl", "abandon", "multi", "mand", "twoloops", "reconv", "fail",
             "stall", "selord", "loopjoin", "clear"}

GraphDef(g) ==
    CASE g = "seq" -> GSeq
      [] g = "cyc" -> GCyc
      [] g = "diamond" -> GDiamond
      [] g = "uneq" -> GUneq
      [] g = "sel" -> GSel
      [] g = "sub" -> GSub
      [] g = "subjoin" -> GSubJoin
      [] g = "par" -> GPar
      [] g = "parout" -> GParOut
      [] g = "subflat" -> GSubFlat
      [] g = "subjoinflat" -> GSubJoinFlat
      [] g = "excl" -> GExcl
      [] g = "abandon" -> GAbandon
      [] g = "multi" -> GMulti
      [] g = "mand" -> GMand
      [] g = "twoloops" -> GTwoLoops
      [] g = "reconv" -> GReconv
      [] g = "fail" -> GFail
      [] g = "stall" -> GStall
      [] g = "selord" -> GSelOrd
      [] g = "loopjoin" -> GLoopJoin
      [] g = "clear" -> GClear

\* the data records a run of graph g is started with
Arrays == {[i \in 1..n |-> i] : n \in 0..MaxLen}

InputData(g) ==
    IF g \in {"par", "parout", "multi"}
    THEN {[a |-> 7, b |-> 5, arr |-> arr] : arr \in Arrays}
    ELSE IF g = "mand"
    THEN {[a |-> 1, b |-> 5], [a |-> 1, b |-> 5, c |-> 0]}
    ELSE IF g = "clear"
    THEN {[a |-> 1, b |-> 5]}
    ELSE IF g = "seq"
    THEN {[a |-> a, b |-> 5] : a \in (-1)..MaxSeed}
             \cup {[a |-> 0, b |-> 5, __WORKING_DIR__ |-> "/work"]}
    ELSE IF g = "cyc"
    THEN {[a |-> a, b |-> 5] : a \in 0..MaxSeed}
    ELSE {[a |-> a, b |-> 5] : a \in (-1)..MaxSeed}

\* -------------------------------------------------------------- state
VARIABLES
    view,                           \* the ProxyDict (or plain dict) an InOutMapping has built, or ViewOff
    parser,                         \* the Parser object at work on a document, or ParserOff
    remote,                         \* the upload or download edge at work, or RemoteOff
    gid,                            \* the graph being built and run
    mode,                           \* "api": built by State/Graph calls; "parser": by GraphFactory.build
    input_edges_number,             \* State fields, one entry per State object
    looped_edges_number,
    activated_input_edges_number,   \* an int, or a list with one counter per branch
    transfers,                      \* the transfers lists, by the state that created the list
    tlist,                          \* which list each state's transfers attribute refers to
    selector,
    is_term_state,
    branching_states_history,
    proxy_state,
    initialized,                    \* Graph._initialized of the main and of the subgraph's Graph object
    execution_path,                 \* Graph.execution_path of the main Graph object
    events,                         \* what the listener of the main Graph object has received
    data,                           \* the data record of the current run
    pc,                             \* where the caller of the engine is
    idle,                           \* the idle_run call in progress: its type, frames and continuation
    cur_state, impl_info, transfer_f,   \* locals of Graph.run
    ret,                            \* the value a called transfer function has just returned
    stack,                          \* the frames of the _morph calls in progress
    result,                         \* what Graph.run returned, or the exception that left it
    runs,                           \* runs started on this Graph object
    trace,                          \* history: what the current run has done, in order
    input,                          \* history: the record the current run was started with
    prev,                           \* history: input, result and final record of the previous run
    copies                          \* fresh copies of the graph compiled so far

engineVars == <<gid, mode, input_edges_number, looped_edges_number,
                activated_input_edges_number, transfers, tlist, selector, is_term_state,
                branching_states_history, proxy_state, initialized, execution_path, events,
                data, pc, idle, cur_state, impl_info, transfer_f, ret, stack, result, runs,
                trace, input, prev, copies>>

\* the objects that are exercised on their own, outside a run of a graph
unitVars == <<view, parser, remote>>

vars == <<unitVars, engineVars>>

stateVars == <<input_edges_number, looped_edges_number, activated_input_edges_number,
               transfers, tlist, selector, is_term_state, branching_states_history,
               proxy_state>>
runVars == <<cur_state, impl_info, transfer_f, ret, stack>>

IntCounter(n) == [int |-> TRUE, n |-> n, list |-> <<>>]
ListCounter(l) == [int |-> FALSE, n |-> 0, list |-> l]

StatesOf(g) == GraphDef(g).states
HasSub(g) == GraphDef(g).sub.state # NoState

\* State.__init__, State.connect_to for every transition, the named selectors
\* set on the states, and Graph.__init__ for the main (and subgraph) object
Compiled(g, m) ==
    LET G == GraphDef(g)
    IN [input_edges_number |-> [s \in G.states |-> 0],
        looped_edges_number |-> [s \in G.states |-> 0],
        activated_input_edges_number |-> [s \in G.states |-> IntCounter(0)],
        transfers |-> [s \in G.states |-> G.transfers[s]],
        tlist |-> [s \in G.states |-> s],
        selector |-> [s \in G.states |->
                        IF s \in DOMAIN G.selectors
                        THEN Selector(Len(G.transfers[s]), G.selectors[s])
                        ELSE IF G.transfers[s] = <<>> THEN Selector(IF m = "api" THEN 1 ELSE 0, "")
                        ELSE Selector(Len(G.transfers[s]), "")],
        is_term_state |-> [s \in G.states |-> s \in {G.term_state, G.sub.term_state}],
        branching_states_history |-> [s \in G.states |-> None],
        proxy_state |-> [s \in G.states |-> NoState]]

NoIdle == [type |-> "", frames |-> <<>>, after |-> "", graph |-> ""]
NoPrev == [input |-> <<>>, result |-> "", data |-> <<>>, fresh |-> FALSE]

FirstPc(g, m) == IF m = "parser" THEN "build" ELSE IF HasSub(g) THEN "replace" ELSE "ready"

\* no document is being parsed
ParserOff == [pc |-> "off"]

\* no view of a record has been built
ViewOff == [pc |-> "off"]

RemoteOff == [pc |-> "off"]

EngineInit ==
    /\ gid \in GraphIds
    /\ mode \in {"api", "parser"}
    /\ input_edges_number = Compiled(gid, mode).input_edges_number
    /\ looped_edges_number = Compiled(gid, mode).looped_edges_number
    /\ activated_input_edges_number = Compiled(gid, mode).activated_input_edges_number
    /\ transfers = Compiled(gid, mode).transfers
    /\ tlist = Compiled(gid, mode).tlist
    /\ selector = Compiled(gid, mode).selector
    /\ is_term_state = Compiled(gid, mode).is_term_state
    /\ branching_states_history = Compiled(gid, mode).branching_states_history
    /\ proxy_state = Compiled(gid, mode).proxy_state
    /\ initialized = [main |-> FALSE, sub |-> FALSE]
    /\ execution_path = <<>>
    /\ events = <<>>
    /\ data = <<>>
    /\ pc = FirstPc(gid, mode)
    /\ idle = NoIdle
    /\ cur_state = NoState
    /\ impl_info = None
    /\ transfer_f = None
    /\ ret = None
    /\ stack = <<>>
    /\ result = ""
    /\ runs = 0
    /\ trace = <<>>
    /\ input = <<>>
    /\ prev = NoPrev
    /\ copies = 0

Init == EngineInit /\ parser = ParserOff /\ view = ViewOff /\ remote = RemoteOff

\* ------------------------------------------------ State.idle_run
\* self.transfers.sort(key = tr.edge.order): a stable sort
RECURSIVE InsertByOrder(_, _)
InsertByOrder(sorted, t) ==
    IF sorted = <<>> THEN <<t>>
    ELSE IF Last(sorted).edge.order <= t.edge.order THEN Append(sorted, t)
    ELSE Append(InsertByOrder(SubSeq(sorted, 1, Len(sorted) - 1), t), Last(sorted))

\* an initialization pass that leaves the transitions as declared
SortByOrder_declared(ts) == ts

RECURSIVE SortByOrder(_)
SortByOrder(ts) ==
    IF ts = <<>> THEN <<>>
    ELSE InsertByOrder(SortByOrder(SubSeq(ts, 1, Len(ts) - 1)), Last(ts))

TransfersOf(s) == transfers[tlist[s]]

\* set(self._branching_states_history).issubset(branching_states_history)
\* an INIT pass that never takes an edge for a loop edge
IsLoopedBranch_never(s, hist) == FALSE

IsLoopedBranch(s, hist) == Range(branching_states_history[s][1]) \subseteq Range(hist)

HasLoop(s) == looped_edges_number[s] # 0

IdleFrame(s, hist) == [state |-> s, hist |-> hist, i |-> 0]
IdleTop == Last(idle.frames)
IdlePop == [idle EXCEPT !.frames = SubSeq(@, 1, Len(@) - 1)]
IdleDescend == [idle EXCEPT !.frames[Len(idle.frames)].i = 1]

\* data.copy(): a new dict with the same value objects.  shared holds the
\* keys whose value is still the object the live record has under that key
dict_copy(d) == [data |-> d, shared |-> DOMAIN d]

Notify(event_type, state, d) ==
    [event |-> event_type, state |-> state, data |-> dict_copy(d).data,
     shared |-> dict_copy(d).shared]

PathEntry(state, d) ==
    [state |-> state, data |-> dict_copy(d).data, shared |-> dict_copy(d).shared]

\* the path a write of key k through the view with mappings km leads to; it
\* changes the object under its first key in place when it goes deeper than
\* that key, and puts a new value under the key otherwise
WritePath(km, k) == IF k \in DOMAIN km THEN km[k] ELSE KeyPath(k)
InPlace(kp) == kp.t = "aig" \/ Len(kp.path) >= 2

\* a copy after the live record has become d2 by writes through paths kps
AfterWrites(snap, d2, kps) ==
    LET mutated == {kp.path[1] : kp \in {q \in kps : InPlace(q)}}
        rebound == {kp.path[1] : kp \in {q \in kps : ~InPlace(q)}}
    IN [snap EXCEPT
           !.shared = @ \ rebound,
           !.data = [k \in DOMAIN @ |->
                        IF k \in snap.shared /\ k \in mutated /\ k \in DOMAIN d2
                        THEN d2[k] ELSE @[k]]]

CopiesAfterWrites(snaps, d2, kps) == [i \in DOMAIN snaps |-> AfterWrites(snaps[i], d2, kps)]

\* the copies when run is given another record
Unshared(snaps) == [i \in DOMAIN snaps |-> [snaps[i] EXCEPT !.shared = {}]]

\* an exception leaves the engine and reaches the caller of run or of build
Raise(exc) ==
    /\ result' = exc
    /\ pc' = IF pc = "idle" /\ idle.after # "run" THEN "failed" ELSE "done"
    /\ idle' = NoIdle
    /\ stack' = <<>>
    /\ ret' = None

\* an INIT pass that goes further from a state at every visit
IdleInit_every_visit(s, hist) ==
    /\ input_edges_number' = [input_edges_number EXCEPT ![s] = @ + 1]
    /\ branching_states_history' =
          [branching_states_history EXCEPT ![s] = IF @ = None THEN Some(hist) ELSE @]
    /\ idle' = IdleDescend
    /\ UNCHANGED <<activated_input_edges_number, looped_edges_number, pc, result, stack, ret>>

IdleInit(s, hist) ==
    LET n == input_edges_number[s] + 1
    IN /\ input_edges_number' = [input_edges_number EXCEPT ![s] = n]
       /\ UNCHANGED activated_input_edges_number
       /\ IF n # 1
          THEN /\ UNCHANGED branching_states_history
               /\ IF branching_states_history[s] = None
                  THEN /\ Raise("TypeError")
                       /\ UNCHANGED looped_edges_number
                  ELSE /\ looped_edges_number' =
                            [looped_edges_number EXCEPT
                               ![s] = IF IsLoopedBranch(s, hist) THEN @ + 1 ELSE @]
                       /\ idle' = IdlePop
                       /\ UNCHANGED <<pc, result, stack, ret>>
          ELSE /\ branching_states_history' =
                    [branching_states_history EXCEPT
                       ![s] = IF @ = None THEN Some(hist) ELSE @]
               /\ idle' = IdleDescend
               /\ UNCHANGED <<looped_edges_number, pc, result, stack, ret>>

\* a CLEANUP pass that leaves the counters as they are
IdleCleanup_keep(s, hist) ==
    /\ UNCHANGED <<activated_input_edges_number, input_edges_number, looped_edges_number, pc, result, stack, ret>>
    /\ IF branching_states_history[s] # None /\ IsLoopedBranch(s, hist)
       THEN /\ branching_states_history' = [branching_states_history EXCEPT ![s] = None]
            /\ idle' = IdlePop
       ELSE /\ branching_states_history' =
                 [branching_states_history EXCEPT ![s] = IF @ = None THEN Some(hist) ELSE @]
            /\ idle' = IdleDescend

IdleCleanup(s, hist) ==
    /\ activated_input_edges_number' = [activated_input_edges_number EXCEPT ![s] = IntCounter(0)]
    /\ UNCHANGED <<input_edges_number, looped_edges_number, pc, result, stack, ret>>
    /\ IF branching_states_history[s] # None /\ IsLoopedBranch(s, hist)
       THEN /\ branching_states_history' = [branching_states_history EXCEPT ![s] = None]
            /\ idle' = IdlePop
       ELSE /\ branching_states_history' =
                 [branching_states_history EXCEPT ![s] = IF @ = None THEN Some(hist) ELSE @]
            /\ idle' = IdleDescend

\* the part of idle_run before its calls on the next states: sort, proxy
\* delegation, and the INIT or CLEANUP bookkeeping
IdleEnter ==
    /\ pc = "idle" /\ idle.frames # <<>> /\ IdleTop.i = 0
    /\ LET s == IdleTop.state
           hist == IdleTop.hist
       IN /\ transfers' = [transfers EXCEPT ![tlist[s]] = SortByOrder(@)]
          /\ IF proxy_state[s] # NoState
             THEN /\ idle' = [idle EXCEPT !.frames[Len(idle.frames)] =
                                              IdleFrame(proxy_state[s], hist)]
                  /\ UNCHANGED <<input_edges_number, looped_edges_number,
                                 activated_input_edges_number, branching_states_history,
                                 pc, result, stack, ret>>
             ELSE IF idle.type = "INIT" THEN IdleInit(s, hist) ELSE IdleCleanup(s, hist)
    /\ UNCHANGED <<unitVars, gid, mode, tlist, selector, is_term_state, proxy_state, initialized,
                   execution_path, events, data, cur_state, impl_info, transfer_f, runs,
                   trace, input, prev, copies>>

\* the loop of idle_run over self.transfers: the call on the next state, or
\* the return when the loop is over
IdleNext ==
    /\ pc = "idle" /\ idle.frames # <<>> /\ IdleTop.i > 0
    /\ LET s == IdleTop.state
           ts == TransfersOf(s)
           i == IdleTop.i
           next_state == ts[i].output_state
           hist == IF Len(ts) = 1 THEN IdleTop.hist ELSE Append(IdleTop.hist, next_state)
       IN IF i > Len(ts)
          THEN /\ idle' = IdlePop
               /\ UNCHANGED <<pc, result, stack, ret>>
          ELSE IF Len(idle.frames) >= RecursionLimit
          THEN Raise("RecursionError")
          ELSE /\ idle' = [idle EXCEPT !.frames =
                              Append([@ EXCEPT ![Len(@)].i = i + 1], IdleFrame(next_state, hist))]
               /\ UNCHANGED <<pc, result, stack, ret>>
    /\ UNCHANGED <<unitVars, gid, mode, stateVars, initialized, execution_path, events, data,
                   cur_state, impl_info, transfer_f, runs, trace, input, prev, copies>>

\* ------------------------------------------- GraphFactory.build
StartIdle(type, s, after, graph) ==
    [type |-> type, frames |-> <<IdleFrame(s, <<s>>)>>, after |-> after, graph |-> graph]

\* build: the Graph object is created and init_graph() is called on it
Build ==
    /\ pc = "build"
    /\ idle' = StartIdle("INIT", GraphDef(gid).init_state,
                         IF HasSub(gid) THEN "subbuild" ELSE "ready", "main")
    /\ pc' = "idle"
    /\ UNCHANGED <<unitVars, gid, mode, stateVars, initialized, execution_path, events, data, runVars,
                   result, runs, trace, input, prev, copies>>

\* build of the subgraph's document by the nested parser: its Graph object
\* is created and initialized
BuildSubgraph ==
    /\ pc = "subbuild"
    /\ idle' = StartIdle("INIT", GraphDef(gid).sub.init_state, "replace", "sub")
    /\ pc' = "idle"
    /\ UNCHANGED <<unitVars, gid, mode, stateVars, initialized, execution_path, events, data, runVars,
                   result, runs, trace, input, prev, copies>>

\* the graph is compiled once more, and the fresh copy is about to be run on
\* the record the last run of the first copy was started with
Recompile ==
    /\ pc = "done" /\ copies = 0 /\ runs >= 2
    /\ input_edges_number' = Compiled(gid, mode).input_edges_number
    /\ looped_edges_number' = Compiled(gid, mode).looped_edges_number
    /\ activated_input_edges_number' = Compiled(gid, mode).activated_input_edges_number
    /\ transfers' = Compiled(gid, mode).transfers
    /\ tlist' = Compiled(gid, mode).tlist
    /\ selector' = Compiled(gid, mode).selector
    /\ is_term_state' = Compiled(gid, mode).is_term_state
    /\ branching_states_history' = Compiled(gid, mode).branching_states_history
    /\ proxy_state' = Compiled(gid, mode).proxy_state
    /\ initialized' = [main |-> FALSE, sub |-> FALSE]
    /\ execution_path' = <<>>
    /\ events' = <<>>
    /\ trace' = <<>>
    /\ prev' = [input |-> input, result |-> result, data |-> data, fresh |-> FALSE]
    /\ data' = <<>>
    /\ input' = <<>>
    /\ result' = ""
    /\ pc' = FirstPc(gid, mode)
    /\ runs' = 0
    /\ copies' = 1
    /\ cur_state' = NoState
    /\ impl_info' = None
    /\ transfer_f' = None
    /\ UNCHANGED <<unitVars, gid, mode, idle, ret, stack>>

\* State.replace_with_graph; in build it is followed by the creation of a
\* new, uninitialized Graph object over the same states
ReplaceWithGraph ==
    /\ pc = "replace"
    /\ LET sub == GraphDef(gid).sub
       IN /\ proxy_state' = [proxy_state EXCEPT ![sub.state] = sub.init_state]
          /\ tlist' = [tlist EXCEPT ![sub.term_state] = tlist[sub.state]]
          /\ selector' = [selector EXCEPT ![sub.term_state] = selector[sub.state]]
    /\ initialized' = IF mode = "parser" THEN [initialized EXCEPT !.main = FALSE]
                      ELSE initialized
    /\ pc' = "ready"
    /\ UNCHANGED <<unitVars, gid, mode, input_edges_number, looped_edges_number,
                   activated_input_edges_number, transfers, is_term_state,
                   branching_states_history, execution_path, events, data, idle, runVars,
                   result, runs, trace, input, prev, copies>>

\* ------------------------------------------- Graph.run: init_graph
\* run(data) is called: init_graph starts the INIT pass on the first use of
\* the Graph object and the CLEANUP pass on every later one
Run ==
    /\ pc \in {"ready", "done"} /\ runs < (IF copies = 0 THEN MaxRuns ELSE 1)
    /\ \E d \in (IF copies = 0 THEN InputData(gid) ELSE {prev.input}) :
          /\ data' = d
          /\ input' = d
    /\ idle' = StartIdle(IF initialized.main THEN "CLEANUP" ELSE "INIT",
                         GraphDef(gid).init_state, "run", "main")
    /\ pc' = "idle"
    /\ runs' = runs + 1
    /\ cur_state' = NoState
    /\ impl_info' = None
    /\ transfer_f' = None
    /\ stack' = <<>>
    /\ result' = ""
    /\ trace' = <<>>
    /\ events' = <<>>
    /\ ret' = None
    /\ prev' = IF runs = 0 THEN prev
               ELSE [input |-> input, result |-> result, data |-> data, fresh |-> runs = 1]
    /\ execution_path' = Unshared(execution_path)
    /\ UNCHANGED <<unitVars, gid, mode, stateVars, initialized, copies>>

cwd == "/cwd"

\* init_graph that sets both keys to the current directory
WorkingDirKeys_overwrite(d) ==
    [__WORKING_DIR__ |-> cwd] @@ [__CURRENT_WORKING_DIR__ |-> cwd] @@ d

\* data['__CURRENT_WORKING_DIR__'] = os.getcwd(), and '__WORKING_DIR__' gets
\* the same value if the record does not have the key
WorkingDirKeys(d) ==
    (IF "__WORKING_DIR__" \in DOMAIN d THEN <<>> ELSE [__WORKING_DIR__ |-> cwd])
        @@ [__CURRENT_WORKING_DIR__ |-> cwd] @@ d

\* the end of the outermost idle_run call: init_graph marks the Graph object
\* initialized and, in run, sets the working-directory keys
IdleReturn ==
    /\ pc = "idle" /\ idle.frames = <<>>
    /\ initialized' = [initialized EXCEPT ![idle.graph] = TRUE]
    /\ pc' = idle.after
    /\ idle' = NoIdle
    /\ IF idle.after = "run"
       THEN /\ data' = WorkingDirKeys(data)
            /\ cur_state' = GraphDef(gid).init_state
            /\ impl_info' = None
       ELSE UNCHANGED <<data, cur_state, impl_info>>
    /\ UNCHANGED <<unitVars, gid, mode, stateVars, execution_path, events, transfer_f, ret, stack,
                   result, runs, trace, input, prev, copies>>

\* ------------------------------------------------------ State.run
RECURSIVE Deproxy(_)
Deproxy(s) == IF proxy_state[s] = NoState THEN s ELSE Deproxy(proxy_state[s])

\* a mapping that leads every branch to the first element
build_dynamic_keys_mapping_first(info) ==
    IF info = None THEN <<>>
    ELSE [key \in DOMAIN info[1].array_keys_mapping |->
             ArrayItemGetter(info[1].array_keys_mapping[key], 0)]

build_dynamic_keys_mapping(info) ==
    IF info = None THEN <<>>
    ELSE [key \in DOMAIN info[1].array_keys_mapping |->
             ArrayItemGetter(info[1].array_keys_mapping[key], info[1].branch_i)]

\* InOutMapping.build_proxy_data of an edge with the default mapping: the
\* record itself without dynamic keys, a ProxyDict over it with them
EdgePredicate(edge, d, dkm) ==
    Predicate(edge.pred_f, d, ProxyKeysMappings(d, dkm), DOMAIN dkm # {})

\* the counter is kept per branch inside implicit parallelization, except by
\* the terminal state
\* a terminal state that counts per branch like any other state
ScalarCounting_perbranch(s, info) == info = None

ScalarCounting(s, info) == info = None \/ is_term_state[s]

BranchList(s, info) ==
    IF activated_input_edges_number[s].int
    THEN [i \in 1..info[1].branches_number |-> 0]
    ELSE activated_input_edges_number[s].list

\* where _activate_input_edge raises: a list += 1, or a branch index outside
\* the list left by an earlier fan-out
CanActivate(s, info) ==
    IF ScalarCounting(s, info) THEN activated_input_edges_number[s].int
    ELSE info[1].branch_i + 1 \in DOMAIN BranchList(s, info)

\* an arrival that counts twice
ActivateInputEdge_twice(s, info) ==
    IF ScalarCounting(s, info) THEN IntCounter(activated_input_edges_number[s].n + 2)
    ELSE ListCounter([BranchList(s, info) EXCEPT ![info[1].branch_i + 1] = @ + 2])

ActivateInputEdge(s, info) ==
    IF ScalarCounting(s, info) THEN IntCounter(activated_input_edges_number[s].n + 1)
    ELSE ListCounter([BranchList(s, info) EXCEPT ![info[1].branch_i + 1] = @ + 1])

\* the counter this arrival counts on
CountOf(c, s, info) ==
    IF ScalarCounting(s, info) THEN c.n ELSE c.list[info[1].branch_i + 1]

\* a barrier that lets every arrival through
ReadyToTransfer_always(c, s, info) == TRUE

ReadyToTransfer(c, s, info) ==
    LET required_activated_input_edges_number ==
            input_edges_number[s] - looped_edges_number[s]
    IN IF info # None
       THEN IF is_term_state[s]
            THEN c.int /\ c.n = info[1].branches_number
            ELSE c.list[info[1].branch_i + 1] = required_activated_input_edges_number
       ELSE c.int /\ c.n = required_activated_input_edges_number

\* a reset that always sets the counter to zero
ResetActivity_zero(c, s, info) ==
    IF ScalarCounting(s, info) THEN IntCounter(0)
    ELSE ListCounter([c.list EXCEPT ![info[1].branch_i + 1] = 0])

ResetActivity(c, s, info) ==
    IF ReadyToTransfer(c, s, info) /\ HasLoop(s)
    THEN IF ScalarCounting(s, info) THEN IntCounter(c.n - 1)
         ELSE ListCounter([c.list EXCEPT ![info[1].branch_i + 1] = @ - 1])
    ELSE IF ScalarCounting(s, info) THEN IntCounter(0)
         ELSE ListCounter([c.list EXCEPT ![info[1].branch_i + 1] = 0])

\* the transfers whose edge's guard is true, whatever the selector says
SelectedTransfers_by_guard(s, d, info) ==
    LET ts == TransfersOf(s)
        dkm == build_dynamic_keys_mapping(info)
        flags == [i \in 1..Len(ts) |-> EdgePredicate(ts[i].edge, d, dkm)]
        idx == FilterIdx(flags, 1, <<>>)
    IN [j \in 1..Len(idx) |-> ts[idx[j]]]

\* self.transfers[i] for the entries i of the selector vector that are true
\* and whose edge's guard is true
SelectedTransfers(s, d, info) ==
    LET ts == TransfersOf(s)
        selected_edges == SelectorFunc(selector[s], d)
        dkm == build_dynamic_keys_mapping(info)
        flags == [i \in 1..Len(selected_edges) |->
                    selected_edges[i] /\ EdgePredicate(ts[i].edge, d, dkm)]
        idx == FilterIdx(flags, 1, <<>>)
    IN [j \in 1..Len(idx) |-> ts[idx[j]]]

\* self.transfers[i] raises IndexError for a true entry beyond the transfers
CanSelect(s, d) ==
    \A i \in DOMAIN SelectorFunc(selector[s], d) :
        SelectorFunc(selector[s], d)[i] => i <= Len(TransfersOf(s))

RunOutcome(kind, s, c, passed, tf, info, msg) ==
    [kind |-> kind, state |-> s, counter |-> c, passed |-> passed, tf |-> tf,
     info |-> info, msg |-> msg]

\* State.run(data, info) on state s0: what it changes and what it returns or
\* raises
StateRun(s0, info) ==
    LET s == Deproxy(s0)
        c1 == ActivateInputEdge(s, info)
        c2 == ResetActivity(c1, s, info)
        info2 == IF is_term_state[s] THEN None ELSE info
        akm == IF s \in DOMAIN GraphDef(gid).akm THEN Some(GraphDef(gid).akm[s]) ELSE None
        selected_transfers == SelectedTransfers(s, data, info2)
    IN IF ~CanActivate(s, info)
       THEN RunOutcome("TypeError", s, activated_input_edges_number[s], FALSE, None, None, "")
       ELSE IF ~ReadyToTransfer(c1, s, info)
       THEN RunOutcome("wait", s, c1, FALSE, None, None, "")
       ELSE IF TransfersOf(s) = <<>>
       THEN RunOutcome("term", s, c2, TRUE, Some(transfer_to_termination), None, "")
       ELSE IF SelectorFunc(selector[s], data) = <<>>
       THEN RunOutcome("GraphUnexpectedTermination", s, c2, TRUE, None, None,
                       "error in selector")
       ELSE IF ~CanSelect(s, data)
       THEN RunOutcome("IndexError", s, c2, TRUE, None, None, "")
       ELSE IF selected_transfers = <<>>
       THEN RunOutcome("GraphUnexpectedTermination", s, c2, TRUE, None, None,
                       "no transfer function has been selected")
       ELSE RunOutcome("morph", s, c2, TRUE,
                       Some(MorphClosure(selected_transfers, akm, info2, s)), info2, "")

\* history record of one call of State.run
RunEvent(s0, info, r, where) ==
    [ev |-> "run", state |-> r.state, via |-> s0, edge |-> "",
     branch |-> IF info = None THEN -1 ELSE info[1].branch_i,
     branches |-> IF info = None THEN 0 ELSE info[1].branches_number,
     count |-> IF r.kind = "TypeError" THEN -1
               ELSE IF r.passed THEN CountOf(ActivateInputEdge(r.state, info), r.state, info)
               ELSE CountOf(r.counter, r.state, info),
     kind |-> r.kind,
     sel |-> r.kind \in {"GraphUnexpectedTermination", "IndexError", "morph"},
     guards |-> IF r.kind \in {"IndexError", "morph"}
                   \/ (r.kind = "GraphUnexpectedTermination" /\ r.msg # "error in selector")
                THEN Len(SelectorFunc(selector[r.state], data)) ELSE 0,
     nsel |-> IF r.tf = None THEN 0 ELSE Len(r.tf[1].transfers),
     info |-> r.info,
     seen |-> data,
     where |-> where]

\* history record of one call of Edge.morph
MorphEvent(t, dkm, where) ==
    [ev |-> "morph", state |-> t.output_state, via |-> "", edge |-> t.edge.id,
     branch |-> IF DOMAIN dkm = {} THEN -1
                ELSE dkm[CHOOSE k \in DOMAIN dkm : TRUE].i,
     branches |-> 0, count |-> 0, kind |-> "", sel |-> FALSE, guards |-> 0, nsel |-> 0,
     info |-> None, seen |-> <<>>, where |-> where]

\* _run_state: State.run with GraphUnexpectedTermination turned into the
\* error marker; the changes it makes to the State object and the record
RunStateChanges(r) ==
    /\ activated_input_edges_number' =
           [activated_input_edges_number EXCEPT ![r.state] = r.counter]
    /\ branching_states_history' =
           IF r.passed THEN [branching_states_history EXCEPT ![r.state] = None]
           ELSE branching_states_history
    /\ UNCHANGED <<input_edges_number, looped_edges_number, transfers, tlist, selector,
                   is_term_state, proxy_state>>

DataAfterRunState(r) ==
    IF r.kind = "GraphUnexpectedTermination"
    THEN [__EXCEPTION__ |-> r.msg] @@ data
    ELSE data

\* _run_state without its except clause
Propagates_all(r) == r.kind \in {"TypeError", "IndexError", "GraphUnexpectedTermination"}

Propagates(r) == r.kind \in {"TypeError", "IndexError"}

HasException(d) == "__EXCEPTION__" \in DOMAIN d

\* ------------------------------------------------ Graph.run: main loop
NewFrame(f) ==
    [f |-> f, next_transfers |-> <<>>, next_impl_para_infos |-> <<>>,
     cur_transfers |-> <<>>, cur_impl_para_infos |-> <<>>, k |-> 0, at |-> "start",
     rounds |-> 0]

\* top of the loop: state_enter is notified and _run_state is called on
\* cur_state; run returns False when the record holds the error marker
MainRunState ==
    /\ pc = "run"
    /\ LET r == StateRun(cur_state, impl_info)
       IN /\ events' = Append(events, Notify("state_enter", cur_state, data))
          /\ trace' = Append(trace, RunEvent(cur_state, impl_info, r, "main"))
          /\ RunStateChanges(r)
          /\ IF Propagates(r)
             THEN /\ Raise(r.kind)
                  /\ UNCHANGED <<data, transfer_f, impl_info>>
             ELSE /\ data' = DataAfterRunState(r)
                  /\ transfer_f' = r.tf
                  /\ impl_info' = r.info
                  /\ IF HasException(DataAfterRunState(r))
                     THEN result' = "False" /\ pc' = "done"
                     ELSE result' = result /\ pc' = "call"
                  /\ UNCHANGED <<idle, stack, ret>>
    /\ UNCHANGED <<unitVars, gid, mode, initialized, execution_path, cur_state, runs, input, prev,
                   copies>>

\* cur_state = transfer_f(data): the call
MainCall ==
    /\ pc = "call" /\ stack = <<>> /\ ret = None
    /\ IF transfer_f = None
       THEN Raise("TypeError")
       ELSE /\ IF transfer_f[1].kind = "term"
               THEN ret' = Some(NoState) /\ stack' = stack
               ELSE ret' = ret /\ stack' = <<NewFrame(transfer_f[1])>>
            /\ UNCHANGED <<pc, result, idle>>
    /\ UNCHANGED <<unitVars, gid, mode, stateVars, initialized, execution_path, events, data,
                   cur_state, impl_info, transfer_f, runs, trace, input, prev, copies>>

\* cur_state = transfer_f(data): the call has returned; the marker is tested,
\* state_exit is notified, the new state is logged or run returns True
MainAfterCall ==
    /\ pc = "call" /\ stack = <<>> /\ ret # None
    /\ cur_state' = ret[1]
    /\ ret' = None
    /\ IF HasException(data)
       THEN /\ result' = "False" /\ pc' = "done"
            /\ UNCHANGED <<events, execution_path>>
       ELSE IF ret[1] # NoState
       THEN /\ events' = Append(events, Notify("state_exit", ret[1], data))
            /\ execution_path' = Append(execution_path, PathEntry(ret[1], data))
            /\ result' = result /\ pc' = "run"
       ELSE /\ events' = events \o <<Notify("state_exit", NoState, data),
                                     Notify("complete", NoState, data)>>
            /\ result' = "True" /\ pc' = "done"
            /\ UNCHANGED execution_path
    /\ UNCHANGED <<unitVars, gid, mode, stateVars, initialized, data, idle, impl_info, transfer_f,
                   stack, runs, trace, input, prev, copies>>

\* ----------------------- SerialParallelizationPolicy.make_transfer_func
Top == Last(stack)
SetTop(fr) == [stack EXCEPT ![Len(stack)] = fr]
Pop == SubSeq(stack, 1, Len(stack) - 1)

\* Edge.morph without _throw_if_not_set
EdgeCanMorph_unchecked(edge, d, dkm) ==
    CanTransform(edge.morph_f, d, ProxyKeysMappings(d, dkm))

\* Edge._throw_if_not_set, then the transform on the mapped view
EdgeCanMorph(edge, d, dkm) ==
    LET km == ProxyKeysMappings(d, dkm)
    IN /\ \A k \in Range(edge.mandatory_keys) : ProxyContains(km, k)
       /\ CanTransform(edge.morph_f, d, km)

\* an edge whose transform is not called
EdgeMorph_skip(edge, d, dkm) == d

EdgeMorph(edge, d, dkm) == Transform(edge.morph_f, d, ProxyKeysMappings(d, dkm))

\* the paths the transform of the edge writes through
EdgeWrites(edge, d, dkm) ==
    {WritePath(ProxyKeysMappings(d, dkm), k) :
        k \in TransformWrites(edge.morph_f, d, ProxyKeysMappings(d, dkm))}

\* t(data) called from the top frame, which becomes fr: Transfer.transfer
\* runs the edge and returns the output state, transfer_to_termination
\* returns None, a _morph closure starts a nested call
CallTransfer(t, fr) ==
    IF t.kind = "partial"
    THEN LET tr == t.transfers[1]
         IN IF EdgeCanMorph(tr.edge, data, t.dkm)
            THEN /\ data' = EdgeMorph(tr.edge, data, t.dkm)
                 /\ events' = CopiesAfterWrites(events, data', EdgeWrites(tr.edge, data, t.dkm))
                 /\ execution_path' = CopiesAfterWrites(execution_path, data',
                                                        EdgeWrites(tr.edge, data, t.dkm))
                 /\ trace' = Append(trace, MorphEvent(tr, t.dkm, Top.f.state))
                 /\ ret' = Some(tr.output_state)
                 /\ stack' = SetTop(fr)
                 /\ UNCHANGED <<pc, result, idle>>
            ELSE /\ Raise("KeyError")
                 /\ UNCHANGED <<data, trace, events, execution_path>>
    ELSE /\ ret' = IF t.kind = "term" THEN Some(NoState) ELSE None
         /\ stack' = IF t.kind = "term" THEN SetTop(fr) ELSE Append(SetTop(fr), NewFrame(t))
         /\ UNCHANGED <<data, trace, pc, result, idle, events, execution_path>>

_requires_joint_of_implicit_parallelization(array_keys_mapping, impl_para_infos) ==
    /\ array_keys_mapping # None
    /\ \E i \in DOMAIN impl_para_infos : impl_para_infos[i] # None

\* the number of branches: the length of the array the first mapped key
\* leads to
ImplicitBranchesNumber(array_keys_mapping, d) ==
    LET anykey == CHOOSE k \in DOMAIN array_keys_mapping : TRUE
    IN Len(recursive_get(d, SeqPath(array_keys_mapping[anykey])))

\* _morph up to its while loop: the transfers to start with
MorphStart ==
    /\ pc = "call" /\ stack # <<>> /\ Top.at = "start"
    /\ LET f == Top.f
           akm == f.akm[1]
           n == ImplicitBranchesNumber(akm, data)
           info(i) == ImplicitParallelizationInfo(akm, n, i - 1)
       IN IF f.akm = None
          THEN /\ stack' = SetTop([Top EXCEPT
                      !.next_transfers = [i \in 1..Len(f.transfers) |->
                          PartialTransfer(f.transfers[i], build_dynamic_keys_mapping(f.ipi))],
                      !.next_impl_para_infos = [i \in 1..Len(f.transfers) |-> f.ipi],
                      !.at = "while"])
               /\ UNCHANGED <<pc, result, idle, ret>>
          ELSE IF Len(f.transfers) # 1
          THEN Raise("BadGraphStructure")
          ELSE /\ stack' = SetTop([Top EXCEPT
                      !.next_transfers = [i \in 1..n |->
                          PartialTransfer(f.transfers[1],
                                          build_dynamic_keys_mapping(Some(info(i))))],
                      !.next_impl_para_infos = [i \in 1..n |-> Some(info(i))],
                      !.at = "while"])
               /\ UNCHANGED <<pc, result, idle, ret>>
    /\ UNCHANGED <<unitVars, gid, mode, stateVars, initialized, execution_path, events, data,
                   cur_state, impl_info, transfer_f, runs, trace, input, prev, copies>>

\* the loop without its diagnostic: an empty round is followed by another
MorphWhile_spin ==
    /\ pc = "call" /\ stack # <<>> /\ Top.at = "while"
    /\ IF Len(Top.next_transfers) # 1
          \/ _requires_joint_of_implicit_parallelization(Top.f.akm, Top.next_impl_para_infos)
       THEN /\ stack' = SetTop([Top EXCEPT
                   !.cur_transfers = Top.next_transfers,
                   !.cur_impl_para_infos = Top.next_impl_para_infos,
                   !.next_transfers = <<>>,
                   !.next_impl_para_infos = <<>>,
                   !.k = 1,
                   !.rounds = @ + 1,
                   !.at = "for"])
            /\ UNCHANGED <<pc, result, idle, ret>>
       ELSE /\ stack' = SetTop([Top EXCEPT !.at = "final"])
            /\ UNCHANGED <<pc, result, idle, ret>>
    /\ UNCHANGED <<unitVars, gid, mode, stateVars, initialized, execution_path, events, data,
                   cur_state, impl_info, transfer_f, runs, trace, input, prev, copies>>

\* the test of the while loop, the diagnostic for an empty round, and the
\* move of the pending transfers into the current round
MorphWhile ==
    /\ pc = "call" /\ stack # <<>> /\ Top.at = "while"
    /\ IF Len(Top.next_transfers) # 1
          \/ _requires_joint_of_implicit_parallelization(Top.f.akm, Top.next_impl_para_infos)
       THEN IF Top.next_impl_para_infos = <<>>
            THEN Raise("Exception")
            ELSE /\ stack' = SetTop([Top EXCEPT
                        !.cur_transfers = Top.next_transfers,
                        !.cur_impl_para_infos = Top.next_impl_para_infos,
                        !.next_transfers = <<>>,
                        !.next_impl_para_infos = <<>>,
                        !.k = 1,
                        !.rounds = @ + 1,
                        !.at = "for"])
                 /\ UNCHANGED <<pc, result, idle, ret>>
       ELSE /\ stack' = SetTop([Top EXCEPT !.at = "final"])
            /\ UNCHANGED <<pc, result, idle, ret>>
    /\ UNCHANGED <<unitVars, gid, mode, stateVars, initialized, execution_path, events, data,
                   cur_state, impl_info, transfer_f, runs, trace, input, prev, copies>>

\* for t, impl_para_info in zip(...): next_state = t(data), or the end of
\* the round
MorphFor ==
    /\ pc = "call" /\ stack # <<>> /\ Top.at = "for" /\ ret = None
    /\ IF Top.k > Len(Top.cur_transfers)
       THEN /\ stack' = SetTop([Top EXCEPT !.at = "while"])
            /\ UNCHANGED <<data, trace, pc, result, idle, ret, events, execution_path>>
       ELSE CallTransfer(Top.cur_transfers[Top.k], [Top EXCEPT !.at = "ran"])
    /\ UNCHANGED <<unitVars, gid, mode, stateVars, initialized,
                   cur_state, impl_info, transfer_f, runs, input, prev, copies>>

\* _morph without its test of the marker
MorphRan_unchecked ==
    /\ pc = "call" /\ stack # <<>> /\ Top.at = "ran" /\ ret # None
    /\ LET next_state == ret[1]
           impl_para_info == Top.cur_impl_para_infos[Top.k]
           r == StateRun(next_state, impl_para_info)
           kept == IF r.tf = None THEN Top
                   ELSE [Top EXCEPT !.next_transfers = Append(@, r.tf[1]),
                                    !.next_impl_para_infos = Append(@, r.info)]
       IN IF next_state = NoState
          THEN /\ stack' = Pop
               /\ ret' = Some(NoState)
               /\ UNCHANGED <<stateVars, data, trace, pc, result, idle>>
          ELSE /\ trace' = Append(trace, RunEvent(next_state, impl_para_info, r, Top.f.state))
               /\ RunStateChanges(r)
               /\ IF Propagates(r)
                  THEN /\ Raise(r.kind)
                       /\ UNCHANGED data
                  ELSE /\ data' = DataAfterRunState(r)
                       /\ stack' = SetTop([kept EXCEPT !.k = Top.k + 1, !.at = "for"])
                       /\ ret' = None
                       /\ UNCHANGED <<pc, result, idle>>
    /\ UNCHANGED <<unitVars, gid, mode, initialized, execution_path, events, cur_state, impl_info,
                   transfer_f, runs, input, prev, copies>>

\* t(data) has returned next_state: _morph returns None if it is None,
\* otherwise _run_state is called on it, _morph returns None if the record
\* holds the marker, and a transfer function that is not None is kept for
\* the next round
MorphRan ==
    /\ pc = "call" /\ stack # <<>> /\ Top.at = "ran" /\ ret # None
    /\ LET next_state == ret[1]
           impl_para_info == Top.cur_impl_para_infos[Top.k]
           r == StateRun(next_state, impl_para_info)
           kept == IF r.tf = None THEN Top
                   ELSE [Top EXCEPT !.next_transfers = Append(@, r.tf[1]),
                                    !.next_impl_para_infos = Append(@, r.info)]
       IN IF next_state = NoState
          THEN /\ stack' = Pop
               /\ ret' = Some(NoState)
               /\ UNCHANGED <<stateVars, data, trace, pc, result, idle>>
          ELSE /\ trace' = Append(trace, RunEvent(next_state, impl_para_info, r, Top.f.state))
               /\ RunStateChanges(r)
               /\ IF Propagates(r)
                  THEN /\ Raise(r.kind)
                       /\ UNCHANGED data
                  ELSE /\ data' = DataAfterRunState(r)
                       /\ IF HasException(DataAfterRunState(r))
                          THEN stack' = Pop /\ ret' = Some(NoState)
                          ELSE /\ stack' = SetTop([kept EXCEPT !.k = Top.k + 1, !.at = "for"])
                               /\ ret' = None
                       /\ UNCHANGED <<pc, result, idle>>
    /\ UNCHANGED <<unitVars, gid, mode, initialized, execution_path, events, cur_state, impl_info,
                   transfer_f, runs, input, prev, copies>>

\* after the loop: next_state = next_transfers[0](data)
MorphFinal ==
    /\ pc = "call" /\ stack # <<>> /\ Top.at = "final" /\ ret = None
    /\ CallTransfer(Top.next_transfers[1], [Top EXCEPT !.at = "return"])
    /\ UNCHANGED <<unitVars, gid, mode, stateVars, initialized,
                   cur_state, impl_info, transfer_f, runs, input, prev, copies>>

\* return next_state
MorphReturn ==
    /\ pc = "call" /\ stack # <<>> /\ Top.at = "return" /\ ret # None
    /\ stack' = Pop
    /\ UNCHANGED <<unitVars, gid, mode, stateVars, initialized, execution_path, events, data, pc, idle,
                   cur_state, impl_info, transfer_f, ret, result, runs, trace, input, prev,
                   copies>>

Next ==
    \/ Build
    \/ BuildSubgraph
    \/ ReplaceWithGraph
    \/ Recompile
    \/ Run
    \/ IdleEnter
    \/ IdleNext
    \/ IdleReturn
    \/ MainRunState
    \/ MainCall
    \/ MainAfterCall
    \/ MorphStart
    \/ MorphWhile
    \/ MorphFor
    \/ MorphRan
    \/ MorphFinal
    \/ MorphReturn

Spec == Init /\ [][Next]_vars

\* ------------------------------------------------------- parser.py
\* A document is a sequence of lines and a line a sequence of tokens: a
\* name (\w+), or one of , -> => = [ ] ( ) { } ". White space is gone, as
\* after re.sub(r"[ \t\r]", "", dot). The entity lines of a document are the
\* same for all documents and are given as the table Entities.
Separators == {"->", "=>"}
Punctuation == Separators \cup {",", "=", "[", "]", "(", ")", "{", "}", "\"", "NUL"}
IsName(t) == t \notin Punctuation

\* Params.__slots__
Slots == {"module", "entry_func", "predicate", "selector", "function", "morphism",
          "parallelism", "comment", "order", "subgraph", "keys_mapping",
          "executable_parameters", "connection_data", "preprocessor", "postprocessor",
          "edge_index", "config_section"}

Params == [s \in Slots |-> None]

\* the entities of every document: functions F1, F2, predicate P1 of
\* test_funcs.simplest and the morphisms e1, e2, e3 built of them
Entities ==
    [F1 |-> [Params EXCEPT !.entry_func = Some(<<"increment_a_edge">>)],
     F2 |-> [Params EXCEPT !.entry_func = Some(<<"increment_b_edge">>)],
     P1 |-> [Params EXCEPT !.entry_func = Some(<<"true_predicate">>)],
     e1 |-> [Params EXCEPT !.predicate = Some(<<"P1">>), !.function = Some(<<"F1">>)],
     e2 |-> [Params EXCEPT !.function = Some(<<"F2">>)],
     e3 |-> [Params EXCEPT !.predicate = Some(<<"P1">>)]]

\* the chars of the file: "digraph G {", the lines, "}"
RECURSIVE Flatten(_)
Flatten(lines) == IF lines = <<>> THEN <<>> ELSE Head(lines) \o Flatten(Tail(lines))

RawFile(doc) == <<"{">> \o Flatten(doc.lines) \o <<"}">>

\* Parser._check_brackets: one counter for each of [ ( { and one for the
\* quotes; the counters after the last char
RECURSIVE CountBrackets(_, _)
CountBrackets(rawfile, br) ==
    IF rawfile = <<>> THEN br
    ELSE LET char == Head(rawfile)
             br2 == CASE char = "[" -> [br EXCEPT !.square = @ + 1]
                      [] char = "{" -> [br EXCEPT !.curly = @ + 1]
                      [] char = "(" -> [br EXCEPT !.round = @ + 1]
                      [] char = "]" -> [br EXCEPT !.square = @ - 1]
                      [] char = "}" -> [br EXCEPT !.curly = @ - 1]
                      [] char = ")" -> [br EXCEPT !.round = @ - 1]
                      [] char = "\"" -> [br EXCEPT !.quote = IF @ = 0 THEN 1 ELSE @ - 1]
                      [] OTHER -> br
         IN CountBrackets(Tail(rawfile), br2)

\* TRUE when _check_brackets returns, FALSE when it raises
_check_brackets(rawfile) ==
    LET br == CountBrackets(rawfile, [square |-> 0, round |-> 0, curly |-> 0, quote |-> 0])
    IN br.square = 0 /\ br.round = 0 /\ br.curly = 0 /\ br.quote = 0

\* the line without { and }, as after re.sub(r"((digraph)|}|{)", "", dot)
StripCurly(line) == SelectSeq(line, LAMBDA t : t \notin {"{", "}"})

\* top_re.match(ln): names and commas, a separator, a name
IsTopologyLine(ln) ==
    \E i \in 2..(Len(ln) - 1) :
        /\ ln[i] \in Separators
        /\ IsName(ln[1]) /\ IsName(ln[i - 1]) /\ IsName(ln[i + 1])
        /\ \A j \in 1..(i - 1) : IsName(ln[j]) \/ ln[j] = ","

\* re.split(r"\s*(=>|->|\[|\])\s*", raw) without "[", "]" and "": the
\* pieces of the line, a separator being a piece of its own
RECURSIVE TopSplit(_, _, _)
TopSplit(toks, cur, out) ==
    LET flushed == IF cur = <<>> THEN out ELSE Append(out, cur)
    IN IF toks = <<>> THEN flushed
       ELSE IF Head(toks) \in Separators
       THEN TopSplit(Tail(toks), <<>>, Append(flushed, <<Head(toks)>>))
       ELSE IF Head(toks) \in {"[", "]"} THEN TopSplit(Tail(toks), <<>>, flushed)
       ELSE TopSplit(Tail(toks), Append(cur, Head(toks)), out)

\* str.split(sep) of a piece
RECURSIVE SplitOn(_, _, _, _)
SplitOn(toks, sep, cur, out) ==
    IF toks = <<>> THEN Append(out, cur)
    ELSE IF Head(toks) = sep THEN SplitOn(Tail(toks), sep, <<>>, Append(out, cur))
    ELSE SplitOn(Tail(toks), sep, Append(cur, Head(toks)), out)

\* left = spl[0].split(","): the names of one side
SideNames(piece) ==
    LET parts == SplitOn(piece, ",", <<>>, <<>>)
    IN [i \in DOMAIN parts |-> IF Len(parts[i]) = 1 THEN parts[i][1] ELSE ""]

\* _param_from_props: the commas of each parenthesized list become \0
\* (written NUL) and the parentheses are removed
RECURSIVE NulLists(_, _, _)
NulLists(toks, inside, out) ==
    IF toks = <<>> THEN out
    ELSE LET t == Head(toks)
         IN IF t = "(" THEN NulLists(Tail(toks), TRUE, out)
            ELSE IF t = ")" THEN NulLists(Tail(toks), FALSE, out)
            ELSE IF t = "," /\ inside THEN NulLists(Tail(toks), inside, Append(out, "NUL"))
            ELSE NulLists(Tail(toks), inside, Append(out, t))

\* for r in rs: r = r.split("=", 1); setattr(parm, r[0], r[1]), or the
\* exception for an unknown parameter
RECURSIVE SetParams(_, _)
SetParams(rs, parm) ==
    IF rs = <<>> THEN [ok |-> TRUE, parm |-> parm]
    ELSE LET r == Head(rs)
         IN IF r = <<>> \/ r[1] \notin Slots THEN [ok |-> FALSE, parm |-> parm]
            ELSE SetParams(Tail(rs), [parm EXCEPT ![r[1]] = Some(SubSeq(r, 3, Len(r)))])

\* Parser._param_from_props(props); a value is kept as its tokens, NUL
\* among them
_param_from_props(props) ==
    IF props = <<>> THEN [ok |-> TRUE, parm |-> Params]
    ELSE SetParams(SplitOn(NulLists(props, FALSE, <<>>), ",", <<>>, <<>>), Params)

HasNul(attr) == attr # None /\ "NUL" \in Range(attr[1])

\* attr.split('\0')
SplitNul(attr) ==
    LET parts == SplitOn(attr[1], "NUL", <<>>, <<>>)
    IN [i \in DOMAIN parts |-> Some(parts[i])]

\* Parser._split_multiple(param): as many copies of param as its first
\* list-valued attribute has values, each with its own value of every
\* list-valued attribute; the exception when two lists differ in length
_split_multiple(param) ==
    LET multi == {sl \in Slots : HasNul(param[sl])}
        lens == {Len(SplitNul(param[sl])) : sl \in multi}
        l == IF multi = {} THEN 0 ELSE CHOOSE n \in lens : TRUE
    IN IF Cardinality(lens) > 1 THEN [ok |-> FALSE, res |-> <<>>]
       ELSE [ok |-> TRUE,
             res |-> [i \in 1..l |->
                        [sl \in Slots |-> IF sl \in multi THEN SplitNul(param[sl])[i]
                                          ELSE param[sl]]]]

\* Parser._multiple_morphs(props, n)
_multiple_morphs(props, n) ==
    LET p == _param_from_props(props)
    IN IF ~p.ok THEN [ok |-> FALSE, res |-> <<>>]
       ELSE IF p.parm.morphism = None THEN [ok |-> TRUE, res |-> [i \in 1..n |-> p.parm]]
       ELSE _split_multiple(p.parm)

\* GraphFactory: the states in the order they were added, and the transfers
\* list of each
StateNames == {"__BEGIN__", "__END__", "S", "T", "A", "C", "D", "F", "H", ""}
NewFactory == [states |-> <<>>, transfers |-> [s \in StateNames |-> <<>>]]

\* GraphFactory.add_state(statename)
add_state(fact, statename) ==
    IF statename \in Range(fact.states) THEN fact
    ELSE [fact EXCEPT !.states = Append(@, statename)]

\* the name an attribute value gives: the value itself
AttrName(attr) == IF Len(attr[1]) = 1 THEN attr[1][1] ELSE "NUL"

EntryFunc(attr) == IF attr = None THEN "" ELSE Entities[AttrName(attr)].entry_func[1][1]

\* GraphFactory._create_morphism(morphname): the guard and the transform,
\* "" standing for Func(); not ok for a name that is not an entity
_create_morphism(morphname) ==
    IF morphname = None THEN [ok |-> TRUE, pred_f |-> "", morph_f |-> ""]
    ELSE IF AttrName(morphname) \notin DOMAIN Entities
    THEN [ok |-> FALSE, pred_f |-> "", morph_f |-> ""]
    ELSE LET morph == Entities[AttrName(morphname)]
         IN [ok |-> TRUE, pred_f |-> EntryFunc(morph.predicate),
             morph_f |-> EntryFunc(morph.function)]

Digits == [d \in {"0", "1", "2", "3"} |-> CASE d = "0" -> 0 [] d = "1" -> 1
                                            [] d = "2" -> 2 [] d = "3" -> 3]

\* Edge.__init__: self.order = int(0 if order is None else order)
CanInt(order) == order = None \/ (Len(order[1]) = 1 /\ order[1][1] \in DOMAIN Digits)
OrderInt(order) == IF order = None THEN 0 ELSE Digits[order[1][1]]

\* the factory after a step, or the exception that step has raised
Made(fact) == [fact |-> fact, error |-> ""]
Failed(fact, exc) == [fact |-> fact, error |-> exc]

\* GraphFactory.add_connection(st1, st2, morphism, ordr)
add_connection(fact, st1, st2, morphism, ordr) ==
    LET m == _create_morphism(morphism)
    IN IF ~m.ok THEN Failed(fact, "KeyError")
       ELSE IF ~CanInt(ordr) THEN Failed(fact, "ValueError")
       ELSE Made([fact EXCEPT !.transfers[st1] =
                      Append(@, Transfer(Edge("", m.pred_f, m.morph_f, OrderInt(ordr), <<>>),
                                         st2))])

\* for i, st in enumerate(...): add_state(st); add_connection(...), from
\* the i-th on
RECURSIVE ConnectAll(_, _, _, _, _, _)
ConnectAll(fact, one, many, morphs, fan, i) ==
    IF i > Len(many) THEN Made(fact)
    ELSE LET f1 == add_state(fact, many[i])
             r == IF fan
                  THEN add_connection(f1, one, many[i], morphs[i].morphism, morphs[i].order)
                  ELSE add_connection(f1, many[i], one, morphs[i].morphism, None)
         IN IF r.error # "" THEN r ELSE ConnectAll(r.fact, one, many, morphs, fan, i + 1)

\* Parser._topology(raw) on the factory fact
_topology(fact, raw) ==
    LET spl == TopSplit(raw, <<>>, <<>>)
        left == SideNames(spl[1])
        right == SideNames(spl[3])
        props == IF Len(spl) < 4 THEN <<>> ELSE spl[4]
    IN IF Len(left) > 1 /\ Len(right) > 1 THEN Failed(fact, "Exception")
       ELSE IF Len(left) > 1
       THEN LET morphs == _multiple_morphs(props, Len(left))
            IN IF ~morphs.ok \/ Len(morphs.res) # Len(left) THEN Failed(fact, "Exception")
               ELSE ConnectAll(add_state(fact, right[1]), right[1], left, morphs.res,
                               FALSE, 1)
       ELSE IF Len(right) > 1
       THEN LET morphs == _multiple_morphs(props, Len(right))
            IN IF ~morphs.ok THEN Failed(fact, "Exception")
               ELSE IF Len(morphs.res) # Len(right)
               THEN Failed(add_state(fact, left[1]), "Exception")
               ELSE ConnectAll(add_state(fact, left[1]), left[1], right, morphs.res, TRUE, 1)
       ELSE LET f2 == add_state(add_state(fact, left[1]), right[1])
            IN IF Len(spl) = 4
               THEN LET pr == _param_from_props(spl[4])
                    IN IF ~pr.ok THEN Failed(f2, "Exception")
                       ELSE add_connection(f2, left[1], right[1], pr.parm.morphism,
                                           pr.parm.order)
               ELSE IF Len(spl) = 3 THEN add_connection(f2, left[1], right[1], None, None)
               ELSE Made(f2)

\* the states idle_run reaches from the initial state
RECURSIVE ReachedFrom(_, _)
ReachedFrom(fact, S) ==
    LET next == S \cup UNION {{fact.transfers[s][i].output_state :
                                   i \in 1..Len(fact.transfers[s])} : s \in S}
    IN IF next = S THEN S ELSE ReachedFrom(fact, next)

\* GraphFactory.build: Graph(self.states["__BEGIN__"], self.states["__END__"])
\* and init_graph, whose idle_run sorts the transfers of every state it
\* reaches
build(fact) ==
    IF ~({"__BEGIN__", "__END__"} \subseteq Range(fact.states)) THEN Failed(fact, "KeyError")
    ELSE Made([fact EXCEPT !.transfers =
                  [s \in StateNames |-> IF s \in ReachedFrom(fact, {"__BEGIN__"})
                                        THEN SortByOrder(fact.transfers[s])
                                        ELSE fact.transfers[s]]])

\* ---------------------------------------------------- the documents parsed
RECURSIVE CommaList(_)
CommaList(names) ==
    IF Len(names) <= 1 THEN names
    ELSE <<Head(names), ",">> \o CommaList(Tail(names))

\* an attribute as written: absent, one value, or a parenthesized list
NoAttr == [given |-> FALSE, list |-> FALSE, vals |-> <<>>]
One(v) == [given |-> TRUE, list |-> FALSE, vals |-> <<v>>]
ListOf(vals) == [given |-> TRUE, list |-> TRUE, vals |-> vals]

AttrTokens(key, attr) ==
    <<key, "=">> \o (IF attr.list THEN <<"(">> \o CommaList(attr.vals) \o <<")">>
                     ELSE attr.vals)

\* [morphism=..., order=...], or nothing when neither is given
PropsTokens(morph, order) ==
    IF ~morph.given /\ ~order.given THEN <<>>
    ELSE <<"[">>
         \o (IF morph.given THEN AttrTokens("morphism", morph) ELSE <<>>)
         \o (IF morph.given /\ order.given THEN <<",">> ELSE <<>>)
         \o (IF order.given THEN AttrTokens("order", order) ELSE <<>>)
         \o <<"]">>

ManyNames == <<"A", "C", "D", "F", "H">>
MorphName(i) == CASE i % 3 = 1 -> "e1" [] i % 3 = 2 -> "e2" [] OTHER -> "e3"
OrderTok(i) == CASE i % 3 = 1 -> "1" [] i % 3 = 2 -> "0" [] OTHER -> "2"

MorphAttrs == {NoAttr, One("e1")} \cup {ListOf([i \in 1..m |-> MorphName(i)]) : m \in 1..MaxNames}
OrderAttrs == {NoAttr, One("1")} \cup {ListOf([i \in 1..k |-> OrderTok(i)]) : k \in 1..MaxNames}

Doc(kind, dir, n, seps, morphs, orders, lines) ==
    [kind |-> kind, dir |-> dir, n |-> n, seps |-> seps, morphs |-> morphs,
     orders |-> orders, lines |-> lines]

\* __BEGIN__ -> S and one line with n names on its plural side: S to the n
\* names ("fan"), the n names to __END__ ("join"), or S, T to the n names
MultiDocs ==
    {Doc("multi", dir, n, <<sep>>, <<morph>>, <<order>>,
         LET many == CommaList(SubSeq(ManyNames, 1, n))
             props == PropsTokens(morph, order)
         IN CASE dir = "fan" ->
                   <<<<"__BEGIN__", "->", "S">>,
                     <<"S", sep>> \o many \o props,
                     many \o <<"->", "__END__">>>>
              [] dir = "join" ->
                   <<<<"__BEGIN__", "->", "S">>,
                     <<"S", "->">> \o many,
                     many \o <<sep, "__END__">> \o props>>
              [] dir = "both" ->
                   <<<<"__BEGIN__", "->", "S">>,
                     <<"S", ",", "T", sep>> \o many \o props,
                     many \o <<"->", "__END__">>>>) :
        dir \in {"fan", "join", "both"}, n \in 2..MaxNames, sep \in Separators,
        morph \in MorphAttrs, order \in OrderAttrs}

\* two one-to-one lines from the same state S, to A and to C
PairDocs ==
    {Doc("pair", "", 1, <<sep1, sep2>>, <<m1, m2>>, <<o1, o2>>,
         <<<<"__BEGIN__", "->", "S">>,
           <<"S", sep1, "A">> \o PropsTokens(m1, o1),
           <<"S", sep2, "C">> \o PropsTokens(m2, o2),
           <<"A", ",", "C", "->", "__END__">>>>) :
        sep1 \in Separators, sep2 \in Separators,
        m1 \in {NoAttr, One("e1")}, m2 \in {NoAttr, One("e1")},
        o1 \in {NoAttr, One("1")}, o2 \in {NoAttr, One("1")}}

BracketChars == {"[", "]", "(", ")", "{", "}", "\""}

RECURSIVE CharSeqs(_)
CharSeqs(n) ==
    IF n = 0 THEN {<<>>}
    ELSE LET shorter == CharSeqs(n - 1)
         IN shorter \cup {Append(q, c) : q \in {r \in shorter : Len(r) = n - 1},
                                          c \in BracketChars}

\* __BEGIN__ -> __END__ followed by a line of brackets and quotes
BracketDocs ==
    {Doc("brackets", "", 0, <<>>, <<>>, <<>>,
         <<<<"__BEGIN__", "->", "__END__">>, junk>>) : junk \in CharSeqs(MaxJunk)}

Documents == MultiDocs \cup PairDocs \cup BracketDocs

\* ---------------------------------------------------- Parser.parse_file
ParserFails(fact, exc) == [parser EXCEPT !.pc = "failed", !.fact = fact, !.error = exc]

\* the file is read and _check_brackets is called on it
ParseFile ==
    /\ parser.pc = "read"
    /\ parser' = IF _check_brackets(RawFile(parser.doc))
                 THEN [parser EXCEPT !.pc = "lines", !.ln = 1]
                 ELSE ParserFails(parser.fact, "Exception")
    /\ UNCHANGED <<view, remote, engineVars>>

\* for i, ln in enumerate(dotlines): a topology line goes to _topology, any
\* other line is passed over
ParseLine ==
    /\ parser.pc = "lines" /\ parser.ln <= Len(parser.doc.lines)
    /\ LET ln == StripCurly(parser.doc.lines[parser.ln])
           r == _topology(parser.fact, ln)
       IN parser' = IF ~IsTopologyLine(ln) THEN [parser EXCEPT !.ln = @ + 1]
                    ELSE IF r.error # "" THEN ParserFails(r.fact, r.error)
                    ELSE [parser EXCEPT !.ln = @ + 1, !.fact = r.fact]
    /\ UNCHANGED <<view, remote, engineVars>>

\* return self.fact.build(Parser.subgr_count)
FactoryBuild ==
    /\ parser.pc = "lines" /\ parser.ln > Len(parser.doc.lines)
    /\ LET r == build(parser.fact)
       IN parser' = IF r.error # "" THEN ParserFails(r.fact, r.error)
                    ELSE [parser EXCEPT !.pc = "done", !.fact = r.fact]
    /\ UNCHANGED <<view, remote, engineVars>>

\* a Parser is given one of the documents; no graph is run
ParserInit ==
    /\ EngineInit /\ gid = "seq" /\ mode = "api"
    /\ view = ViewOff
    /\ remote = RemoteOff
    /\ parser \in {[pc |-> "read", doc |-> d, ln |-> 0, fact |-> NewFactory, error |-> ""] :
                     d \in Documents}

ParserNext ==
    \/ ParseFile
    \/ ParseLine
    \/ FactoryBuild

ParserSpec == ParserInit /\ [][ParserNext]_vars


\* ===================================================== properties
\* what the history says about the current run
IsRun(e) == e.ev = "run" /\ e.kind # "TypeError"
Passed(e) == e.ev = "run" /\ e.kind \in {"term", "morph", "GraphUnexpectedTermination", "IndexError"}
MorphIdx(id) == {i \in DOMAIN trace : trace[i].ev = "morph" /\ trace[i].edge = id}
MorphCount(id) == Cardinality(MorphIdx(id))
RunIdx == {i \in DOMAIN trace : trace[i].ev = "run"}

\* the value the counter has to reach, from the fields of the State object
\* and the ImplicitParallelizationInfo of the arrival
Threshold(e) ==
    IF e.branch # -1 /\ is_term_state[e.state] THEN e.branches
    ELSE input_edges_number[e.state] - looped_edges_number[e.state]

\* C1. Join barrier: State.run evaluates the selector and returns a transfer
\* function only on the arrival whose incremented counter (scalar, per branch,
\* or against branches_number for the terminal state inside implicit
\* parallelization) equals the threshold; on every other arrival it returns
\* (None, None) and evaluates neither the selector nor a guard.
C1_JoinBarrier ==
    \A i \in DOMAIN trace :
        IsRun(trace[i]) =>
            /\ Passed(trace[i]) <=> trace[i].count = Threshold(trace[i])
            /\ ~Passed(trace[i]) =>
                  /\ trace[i].kind = "wait"
                  /\ ~trace[i].sel
                  /\ trace[i].guards = 0
                  /\ trace[i].nsel = 0
                  /\ trace[i].info = None

\* a join state with two incoming edges has waited on its first arrival and
\* passed, with its transition selected, on the second
C1_Witness ==
    \E i, j \in DOMAIN trace :
        /\ i < j
        /\ trace[i].ev = "run" /\ trace[i].kind = "wait" /\ trace[i].count = 1
        /\ trace[j].ev = "run" /\ trace[j].kind = "morph" /\ trace[j].count = 2
        /\ trace[i].state = trace[j].state
        /\ trace[j].branch = -1
        /\ Threshold(trace[j]) = 2

\* the fan-out states of the graphs, the join state their branches meet at,
\* the edges of the branches and the edge leaving the join state
FanOutJoin ==
    [diamond |-> [fork |-> "S", join |-> "J", k |-> 2,
                  edges |-> {"sa", "sc", "aj", "cj"}, out |-> "je"],
     uneq |-> [fork |-> "S", join |-> "J", k |-> 2,
               edges |-> {"sa", "sc", "aj", "cd", "dj"}, out |-> "je"],
     fail |-> [fork |-> "S", join |-> "J", k |-> 2,
               edges |-> {"sa", "sc", "aj", "cj"}, out |-> "je"],
     subjoinflat |-> [fork |-> "P", join |-> "G0", k |-> 2,
                      edges |-> {"pa", "pc", "as", "cs"}, out |-> "g01"],
     subjoin |-> [fork |-> "P", join |-> "S", k |-> 2,
                  edges |-> {"pa", "pc", "as", "cs"}, out |-> "se"]]

ForkSelected(g) ==
    \E i \in DOMAIN trace :
        /\ trace[i].ev = "run" /\ trace[i].state = FanOutJoin[g].fork
        /\ trace[i].nsel = FanOutJoin[g].k

ArrivalsAt(s, upto) ==
    {i \in 1..upto : trace[i].ev = "run" /\ trace[i].via = s}

PassesOf(s) == {i \in DOMAIN trace : Passed(trace[i]) /\ trace[i].via = s}

ExactlyOnce(g) ==
    LET F == FanOutJoin[g]
    IN /\ \A id \in F.edges \cup {F.out} : MorphCount(id) <= 1
       /\ Cardinality(PassesOf(F.join)) <= 1
       /\ \A i \in PassesOf(F.join) : Cardinality(ArrivalsAt(F.join, i)) = F.k
       /\ (pc = "done" /\ result = "True") =>
              /\ \A id \in F.edges \cup {F.out} : MorphCount(id) = 1
              /\ Cardinality(PassesOf(F.join)) = 1

\* C2. Fan-out and join, exactly once: when k >= 2 transitions of a state are
\* selected and the k branches meet again at a join state J with k non-loop
\* incoming edges, a run executes the transform of every edge of the branches
\* exactly once, J passes its barrier exactly once, only after the k-th
\* arrival, and J's outgoing transform is executed exactly once.
C2_FanOutJoinOnce ==
    (gid \in DOMAIN FanOutJoin /\ ForkSelected(gid)) => ExactlyOnce(gid)

\* C3. Fatal selector exhaustion: when a state that passed its barrier and
\* has transitions gets an empty or all-false selector vector, or only false
\* guards, the record holds a non-empty message under '__EXCEPTION__', no
\* exception leaves run, and run returns False; in the main loop and inside
\* a transfer function alike.
C3_SelectorExhaustion ==
    (\E i \in DOMAIN trace : trace[i].ev = "run" /\ trace[i].kind = "GraphUnexpectedTermination")
        => /\ HasException(data)
           /\ data["__EXCEPTION__"] # ""
           /\ result \in {"", "False"}
           /\ pc \in {"call", "done"}
           /\ pc = "done" => result = "False"
           /\ pc = "call" => (stack # <<>> \/ ret # None)
           /\ trace[Len(trace)].kind = "GraphUnexpectedTermination"

\* run has returned False after every guard failed in a state that was run
\* inside the transfer function of another state
C3_Witness ==
    /\ pc = "done" /\ result = "False"
    /\ \E i \in DOMAIN trace :
          /\ trace[i].ev = "run" /\ trace[i].kind = "GraphUnexpectedTermination"
          /\ trace[i].where # "main"
          /\ trace[i].guards > 0

\* C4. Result matches the error marker: when run returns True the record has
\* no '__EXCEPTION__' key and the last state run had no outgoing transitions;
\* when it returns False the record has the '__EXCEPTION__' key.
C4_ResultMatchesMarker ==
    /\ (pc = "done" /\ result = "True") =>
          /\ ~HasException(data)
          /\ RunIdx # {}
          /\ LET last == CHOOSE i \in RunIdx : \A j \in RunIdx : j <= i
             IN TransfersOf(trace[last].state) = <<>>
    /\ (pc = "done" /\ result = "False") => HasException(data)

\* C5. Re-run independence: running the graph on d1 and then the same graph
\* object on d2 gives, for d2, the result and the final record that a freshly
\* compiled copy of the graph gives on d2, also after a failed first run.
C5_RerunIndependence ==
    (pc = "done" /\ copies = 1) => (result = prev.result /\ data = prev.data)

InRun == pc \in {"run", "call", "done"}

\* C6. Loop convergence: with a self-loop guarded by a != 0 that decrements a
\* and an exit guarded by a == 0, for every positive seed the run terminates,
\* returns True, ends with a = 0, and executes the loop transform seed-many
\* times and the exit transform once.
C6_LoopConvergence ==
    (gid = "cyc" /\ InRun /\ input.a > 0) =>
        /\ MorphCount("loop") <= input.a
        /\ MorphCount("exit") <= 1
        /\ data.a = input.a - MorphCount("loop")
        /\ pc # "done" => ENABLED Next
        /\ pc = "done" =>
              /\ result = "True"
              /\ data.a = 0
              /\ MorphCount("loop") = input.a
              /\ MorphCount("exit") = 1

\* a run seeded with a = 2 has returned after two turns of the loop
C6_Witness ==
    /\ gid = "cyc" /\ pc = "done" /\ input.a = 2
    /\ MorphCount("loop") = 2 /\ MorphCount("exit") = 1 /\ data.a = 0

\* the graphs that are linear chains declared without guards
IsChain(g) ==
    /\ ~HasSub(g)
    /\ DOMAIN GraphDef(g).akm = {}
    /\ DOMAIN GraphDef(g).selectors = {}
    /\ \A s \in StatesOf(g) :
          /\ Len(GraphDef(g).transfers[s]) <= 1
          /\ \A i \in DOMAIN GraphDef(g).transfers[s] :
                GraphDef(g).transfers[s][i].edge.pred_f = ""

\* the edges of a chain in path order, from state s on
RECURSIVE ChainFrom(_, _)
ChainFrom(g, s) ==
    IF GraphDef(g).transfers[s] = <<>> THEN <<>>
    ELSE <<GraphDef(g).transfers[s][1].edge>>
             \o ChainFrom(g, GraphDef(g).transfers[s][1].output_state)

ChainOf(g) == ChainFrom(g, GraphDef(g).init_state)

\* the transforms of the edges applied one after the other
RECURSIVE ApplyInOrder(_, _)
ApplyInOrder(edges, d) ==
    IF edges = <<>> THEN d
    ELSE ApplyInOrder(Tail(edges), Transform(Head(edges).morph_f, d, ProxyKeysMappings(d, <<>>)))

WithWorkingDir(d) == WorkingDirKeys(d)

\* the edges whose transform has been executed, in the order of execution
MorphSeq ==
    LET m == SelectSeq(trace, LAMBDA e : e.ev = "morph")
    IN [i \in DOMAIN m |-> m[i].edge]

EdgeIds(edges) == [i \in DOMAIN edges |-> edges[i].id]

MandatoryKeysGiven(g, d) ==
    \A i \in DOMAIN ChainOf(g) : Range(ChainOf(g)[i].mandatory_keys) \subseteq DOMAIN d

\* the visits on which State.run comes to ask the selector and the guards
GuardsAsked(i) ==
    trace[i].ev = "run" /\ trace[i].kind \in {"morph", "GraphUnexpectedTermination"}

\* every guard asked so far in the run has returned a true value
GuardsHeld ==
    \A i \in DOMAIN trace :
        GuardsAsked(i) =>
            \A p \in DOMAIN TransfersOf(trace[i].state) :
                EdgePredicate(TransfersOf(trace[i].state)[p].edge, trace[i].seen,
                              build_dynamic_keys_mapping(trace[i].info))

Spliced(g) == IF g = "sub" THEN "subflat" ELSE "subjoinflat"

\* what a run of the flat graphs returns: every transform once
FlatOutcome(g, d) ==
    IF g = "subflat"
    THEN [result |-> "True",
          data |-> [WithWorkingDir(d) EXCEPT !.a = 2 * (d.a + 1) + 1, !.b = d.b + 1],
          morphs |-> {<<"bs", "g01", "g12", "se">>}]
    ELSE [result |-> "True",
          data |-> [WithWorkingDir(d) EXCEPT !.a = d.a + 1, !.b = d.b + 1],
          morphs |-> {<<"in", "pa", "pc", "as", "cs", "g01", "se">>}]

Outcome == [result |-> result, data |-> data, morphs |-> {MorphSeq}]

\* the flat graphs do give FlatOutcome
FlatGraphsOutcome ==
    (gid \in {"subflat", "subjoinflat"} /\ pc = "done") => Outcome = FlatOutcome(gid, input)

\* C8. Subgraph inlining transparency: a graph in which state S is replaced
\* by subgraph G gives the result and the final record of the flat graph with
\* G's states spliced in place of S; arriving at S runs G's initial state, and
\* G's terminal state selects among S's transitions with S's selector.
C8_SubgraphTransparency ==
    (HasSub(gid) /\ InRun) =>
        LET sub == GraphDef(gid).sub
        IN /\ \A i \in DOMAIN trace :
                 (trace[i].ev = "run" /\ trace[i].via = sub.state) =>
                     trace[i].state = sub.init_state
           /\ TransfersOf(sub.term_state) = SortByOrder(GraphDef(gid).transfers[sub.state])
           /\ selector[sub.term_state] = selector[sub.state]
           /\ pc = "done" => Outcome = FlatOutcome(Spliced(gid), input)

\* the graphs with an implicit-parallel state that has a single transition,
\* and that transition's edge
FanEdge(g) == IF g = "par" THEN "px" ELSE "pe"

\* the transform of edge id has been executed in branch i
DoneIn(id, i) ==
    \E j \in DOMAIN trace :
        trace[j].ev = "morph" /\ trace[j].edge = id /\ trace[j].branch = i

\* the branch indices of the executions of edge id, in order of execution
BranchSeq(id) ==
    LET m == SelectSeq(trace, LAMBDA e : e.ev = "morph" /\ e.edge = id)
    IN [i \in DOMAIN m |-> m[i].branch]

\* what element i of the array is after the transforms executed in branch i
ElementEffect(g, i) ==
    LET v == input.arr[i + 1]
    IN IF g = "par"
       THEN IF DoneIn("xe", i) THEN 2 * (v + 1) ELSE IF DoneIn("px", i) THEN v + 1 ELSE v
       ELSE IF DoneIn("pe", i) THEN v + 1 ELSE v

\* C9. Implicit-parallel fan-out: the number of branches is the length of the
\* mapped array; the transition's transform is executed once for each branch
\* index 0..n-1 in ascending order, and in branch i a read or write through a
\* mapped key addresses element i of the array and nothing else.
C9_ImplicitFanOut ==
    (gid \in {"par", "parout"} /\ InRun) =>
        LET n == Len(input.arr)
        IN /\ \A j \in DOMAIN trace :
                 (trace[j].ev = "run" /\ trace[j].branch # -1) =>
                     (trace[j].branches = n /\ trace[j].branch \in 0..(n - 1))
           /\ Len(BranchSeq(FanEdge(gid))) <= n
           /\ \A k \in DOMAIN BranchSeq(FanEdge(gid)) : BranchSeq(FanEdge(gid))[k] = k - 1
           /\ pc = "done" => Len(BranchSeq(FanEdge(gid))) = n
           /\ Len(data.arr) = n
           /\ \A i \in 0..(n - 1) : data.arr[i + 1] = ElementEffect(gid, i)
           /\ data.a = input.a

\* the second of two branches has incremented its own element of the array
C9_Witness ==
    /\ gid = "par" /\ InRun /\ input.arr = <<1, 2>>
    /\ BranchSeq("px") = <<0, 1>>
    /\ data.arr = <<2, 3>>
    /\ data.a = 7

\* C10. Implicit-parallel join: in a fan-out with n >= 1 branches the terminal
\* state passes its barrier exactly once, on the n-th arrival, when its scalar
\* counter equals n; nothing beyond it is computed before that, and the
\* ImplicitParallelizationInfo carried onward from it is None.
C10_ImplicitJoin ==
    (gid \in {"par", "parout"} /\ InRun /\ Len(input.arr) >= 1) =>
        LET n == Len(input.arr)
            T == GraphDef(gid).term_state
            passes == {i \in DOMAIN trace : Passed(trace[i]) /\ trace[i].state = T}
            beyond == {j \in DOMAIN trace : trace[j].edge = "ef" \/ trace[j].state = "F"}
        IN /\ Cardinality(passes) <= 1
           /\ \A i \in passes :
                 /\ Cardinality({j \in 1..i : trace[j].ev = "run" /\ trace[j].state = T}) = n
                 /\ trace[i].count = n
                 /\ trace[i].branch = n - 1
                 /\ trace[i].info = None
           /\ \A j \in beyond :
                 /\ \E i \in passes : i < j
                 /\ trace[j].branch = -1
           /\ pc = "done" => (result = "True" /\ Cardinality(passes) = 1)

\* the terminal state has waited for the first of two branches, has passed
\* on the second, and the edge leaving it has been executed
C10_Witness ==
    /\ gid = "parout" /\ pc = "done" /\ result = "True" /\ Len(input.arr) = 2
    /\ \E i, j \in DOMAIN trace :
          /\ i < j
          /\ trace[i].ev = "run" /\ trace[i].state = "E" /\ trace[i].kind = "wait"
          /\ trace[j].ev = "run" /\ trace[j].state = "E" /\ trace[j].kind = "morph"
          /\ trace[j].count = 2
    /\ MorphCount("ef") = 1

\* an implicit-parallel state (one with an array-keys mapping) that has more
\* than one outgoing transition has been run
StructuralFatal ==
    \E j \in DOMAIN trace :
        /\ trace[j].ev = "run"
        /\ trace[j].state \in DOMAIN GraphDef(gid).akm
        /\ Len(transfers[trace[j].state]) > 1

\* C11. Structural-fatal propagation: when an implicit-parallel state with
\* more than one outgoing transition has been run, Graph.run ends by
\* returning False with a message under '__EXCEPTION__' in the data record;
\* no exception reaches the caller of run.
C11_StructuralFatal ==
    (pc = "done" /\ StructuralFatal) => (result = "False" /\ HasException(data))

\* the edge "bm" of the graph mand, whose mandatory key "c" is absent from
\* the input record, has been reached
DataFatal ==
    /\ gid = "mand" /\ InRun /\ "c" \notin DOMAIN input
    /\ \E j \in DOMAIN trace : trace[j].ev = "run" /\ trace[j].state = "B"

\* C12. Data-fatal propagation: when an edge reached during a run has a
\* mandatory key that is absent from its mapped view, Graph.run ends by
\* returning False with a message under '__EXCEPTION__' in the data record;
\* no exception reaches the caller of run.
C12_DataFatal ==
    (pc = "done" /\ DataFatal) => (result = "False" /\ HasException(data))

Succ(g, s) ==
    {GraphDef(g).transfers[s][i].output_state : i \in DOMAIN GraphDef(g).transfers[s]}

RECURSIVE ReachableFrom(_, _, _)
ReachableFrom(g, S, n) ==
    IF n = 0 THEN S ELSE ReachableFrom(g, S \cup UNION {Succ(g, s) : s \in S}, n - 1)

\* no state of graph g lies on a cycle of transitions
Acyclic(g) ==
    \A s \in GraphDef(g).states :
        s \notin ReachableFrom(g, Succ(g, s), Cardinality(GraphDef(g).states))

InLoop == pc = "call" /\ stack # <<>> /\ Top.at \in {"while", "for", "ran"}

\* the step in which the loop of the innermost transfer function ends
LoopEnds ==
    /\ InLoop
    /\ \/ Len(stack') < Len(stack)
       \/ Len(stack') = Len(stack) /\ stack'[Len(stack)].at = "final"

\* the four ways the loop ends: one continuation left; the transfer function
\* returns None because a continuation returned None (termination) or the
\* record holds the marker; the diagnostic after a round that left nothing
LoopEndMode ==
    \/ /\ Len(stack') = Len(stack)
       /\ Top.at = "while"
       /\ Len(Top.next_transfers) = 1
    \/ /\ stack' = Pop /\ pc' = "call"
       /\ Top.at = "ran"
       /\ ret' = Some(NoState)
       /\ ret = Some(NoState) \/ HasException(data')
    \/ /\ stack' = <<>> /\ pc' = "done" /\ result' = "Exception"
       /\ Top.at = "while"
       /\ Top.next_transfers = <<>> /\ Top.next_impl_para_infos = <<>>
       /\ ~HasException(data')

\* C13. Convergence of the continuation loop: on an acyclic graph the loop of
\* a transfer function makes at most as many rounds as the graph has states
\* and always has a next step, and it ends only with exactly one continuation
\* left, with termination (a continuation returned None), with the error
\* marker in the record, or with the diagnostic raised after a round that
\* left no pending continuation.
C13_LoopConverges ==
    /\ [][(Acyclic(gid) /\ LoopEnds) => LoopEndMode]_vars
    /\ [](Acyclic(gid) =>
             /\ \A i \in DOMAIN stack : stack[i].rounds <= Cardinality(GraphDef(gid).states)
             /\ pc = "call" => ENABLED Next)

\* both branches of S were suspended at the join J, the round left no
\* pending continuation, and the diagnostic was raised
C13_Witness ==
    /\ gid = "stall" /\ Acyclic(gid) /\ pc = "done" /\ result = "Exception"
    /\ Cardinality({j \in DOMAIN trace :
          trace[j].ev = "run" /\ trace[j].state = "J" /\ trace[j].kind = "wait"}) = 2
    /\ \A j \in DOMAIN trace : trace[j].state # "E"

\* the transitions of ts whose edge has order o, in the order of ts
OfOrder(ts, o) == SelectSeq(ts, LAMBDA t : t.edge.order = o)

\* ts holds the transitions of decl in ascending edge order, those of equal
\* order in the order they have in decl
IsStableSortOf(ts, decl) ==
    /\ Len(ts) = Len(decl)
    /\ \A i, j \in DOMAIN ts : i < j => ts[i].edge.order <= ts[j].edge.order
    /\ \A t \in Range(decl) : OfOrder(ts, t.edge.order) = OfOrder(decl, t.edge.order)

\* the place of the edge named id among the transitions of state s
PlaceOf(s, id) == CHOOSE i \in DOMAIN TransfersOf(s) : TransfersOf(s)[i].edge.id = id

\* trace entries i < j are transforms executed by the transfer function that
\* one visit of state s has returned
SameVisit(s, i, j) ==
    /\ i < j
    /\ trace[i].ev = "morph" /\ trace[i].where = s
    /\ trace[j].ev = "morph" /\ trace[j].where = s
    /\ trace[i].edge # trace[j].edge
    /\ \A k \in (i + 1)..(j - 1) :
          ~(trace[k].ev = "run" /\ trace[k].state = s /\ trace[k].kind = "morph")

\* the edges whose transforms the transfer function of state s has executed
EdgesFrom(s) ==
    LET idx == FilterIdx([j \in DOMAIN trace |->
                             trace[j].ev = "morph" /\ trace[j].where = s], 1, <<>>)
    IN [k \in DOMAIN idx |-> trace[idx[k]].edge]

IsPrefix(p, q) == Len(p) <= Len(q) /\ p = SubSeq(q, 1, Len(p))

\* C14. Order of attempts: in a run every state's transitions are those it
\* was declared with, sorted by edge order with equal orders in declaration
\* order; the transforms one visit of a state selects are executed in the
\* order of that list (so in ascending edge order); and the i-th entry of
\* the selector vector stands for the i-th transition of that list: in
\* the graph selord, where S declares sy (order 1) before sx (order 0) and
\* the selector is [a > 0, not a > 0], sx alone is executed for a > 0 and
\* sy alone otherwise.
C14_OrderOfAttempts ==
    InRun =>
        /\ \A s \in GraphDef(gid).states :
              IsStableSortOf(TransfersOf(s), GraphDef(gid).transfers[tlist[s]])
        /\ \A s \in GraphDef(gid).states : \A i, j \in DOMAIN trace :
              SameVisit(s, i, j) =>
                  /\ PlaceOf(s, trace[i].edge) < PlaceOf(s, trace[j].edge)
                  /\ TransfersOf(s)[PlaceOf(s, trace[i].edge)].edge.order
                        <= TransfersOf(s)[PlaceOf(s, trace[j].edge)].edge.order
        /\ gid = "selord" =>
              LET chosen == IF input.a > 0 THEN <<"sx">> ELSE <<"sy">>
              IN /\ IsPrefix(EdgesFrom("S"), chosen)
                 /\ pc = "done" => EdgesFrom("S") = chosen

\* S of the graph uneq, declared with sc (order 1) before sa (order 0), has
\* executed sa and then sc
C14_Witness ==
    /\ gid = "uneq" /\ pc = "done"
    /\ GraphDef(gid).transfers["S"][1].edge.id = "sc"
    /\ EdgesFrom("S") = <<"sa", "sc">>

Parsed == parser.pc = "done"

\* the transition from state s to state d that the parser has made
TransferTo(s, d) == CHOOSE t \in Range(parser.fact.transfers[s]) : t.output_state = d

\* the document declares S -> A and S => C, both without attributes
ArrowAndDoubleArrow ==
    /\ parser.doc.kind = "pair"
    /\ parser.doc.seps = <<"->", "=>">>
    /\ parser.doc.morphs = <<NoAttr, NoAttr>>
    /\ parser.doc.orders = <<NoAttr, NoAttr>>

\* C15. Edge-separator distinction: when a parsed document declares S -> A
\* and S => C, state S has two transitions, the one to A with edge order 0
\* and the one to C with edge order 1, with the same guard and transform.
C15_EdgeSeparator ==
    (Parsed /\ ArrowAndDoubleArrow) =>
        /\ Len(parser.fact.transfers["S"]) = 2
        /\ TransferTo("S", "A").edge.order = 0
        /\ TransferTo("S", "C").edge.order = 1
        /\ TransferTo("S", "A").edge.pred_f = TransferTo("S", "C").edge.pred_f
        /\ TransferTo("S", "A").edge.morph_f = TransferTo("S", "C").edge.morph_f

\* ===================================================================
\* InOutMapping.build_proxy_data and the ProxyDict it returns, exercised on
\* records and mappings drawn from small sets
\* ===================================================================

\* dict(self._keys_mapping, **dynamic_keys_mapping)
MergedMapping(keys_mapping, dynamic_keys_mapping) == dynamic_keys_mapping @@ keys_mapping

\* build_proxy_data: the record itself when nothing is configured, else a
\* ProxyDict over it
build_proxy_data(io, data_, dynamic_keys_mapping) ==
    IF /\ io.default_relative_key = <<>>
       /\ io.relative_keys = <<>>
       /\ DOMAIN io.keys_mapping = {}
       /\ DOMAIN dynamic_keys_mapping = {}
    THEN [proxy |-> FALSE, data |-> data_,
          km |-> [k \in DOMAIN data_ |-> KeyPath(k)],
          default_relative_key |-> <<>>]
    ELSE [proxy |-> TRUE, data |-> data_,
          km |-> ProxyDictInit(data_, io.relative_keys,
                               MergedMapping(io.keys_mapping, dynamic_keys_mapping)),
          default_relative_key |-> io.default_relative_key]

\* the records: root key a, a sub-dictionary with or without a, another
\* sub-dictionary, an array of up to MaxLen items or none
ArrayOf(n) == [i \in 1..n |-> 4 + i]
RecordsIn ==
    {  (IF root THEN [a |-> 1] ELSE <<>>)
    @@ (IF inner THEN [sub |-> [a |-> 2, c |-> 3]] ELSE [sub |-> [c |-> 3]])
    @@ [other |-> [a |-> 4]]
    @@ (IF n < 0 THEN <<>> ELSE [arr |-> ArrayOf(n)])
       : root \in BOOLEAN, inner \in BOOLEAN, n \in -1..MaxLen }

RelativeKeysIn == { <<>>, << <<"sub">> >>, << <<"other">>, <<"sub">> >> }

StaticMappingsIn ==
    { <<>>, [a |-> SeqPath(<<"other", "a">>)], [k |-> SeqPath(<<"x", "y">>)] }

DynamicMappingsIn ==
    { <<>> } \cup { [a |-> ArrayItemGetter(<<"arr">>, i)] : i \in 0..(MaxLen - 1) }

DefaultRelativeKeysIn == { <<>>, <<"sub">>, <<"new">> }

ViewKeys == {"a", "c", "k", "z"}

\* the value that is written: no record holds it beforehand
Written == 9

\* view = io.build_proxy_data(data, dynamic)
BuildProxyData ==
    /\ view.pc = "new"
    /\ view' = [view EXCEPT !.pc = "view",
                            !.v = build_proxy_data(view.io, view.data, view.dynamic)]
    /\ UNCHANGED <<parser, remote, engineVars>>

\* view[key]: the value, or the KeyError / IndexError of an unmapped key, a
\* missing root key or an item that is not in the array
GetItem ==
    /\ view.pc \in {"view", "written"}
    /\ \E key \in ViewKeys :
          view' = [view EXCEPT !.pc = "read", !.key = key,
                      !.got = IF ProxyCanGet(view.v.data, view.v.km, key)
                              THEN Some(ProxyGet(view.v.data, view.v.km, key))
                              ELSE None]
    /\ UNCHANGED <<parser, remote, engineVars>>

\* view[key] = Written; an item beyond the end of its array raises IndexError
\* and leaves the view as it is
SetItem ==
    /\ view.pc = "view"
    /\ \E key \in ViewKeys :
          LET target == IF key \in DOMAIN view.v.km THEN view.v.km[key]
                        ELSE SeqPath(Append(view.v.default_relative_key, key))
              after == ProxySetItem(view.v.data, view.v.km, view.v.default_relative_key,
                                    key, Written)
          IN IF CanSet(view.v.data, target)
             THEN view' = [view EXCEPT !.pc = "written", !.wkey = key, !.target = target,
                                       !.raised = FALSE,
                                       !.v.data = after.data, !.v.km = after.km]
             ELSE view' = [view EXCEPT !.pc = "written", !.wkey = key, !.target = target,
                                       !.raised = TRUE]
    /\ UNCHANGED <<parser, remote, engineVars>>

ProxyInit ==
    /\ EngineInit /\ gid = "seq" /\ mode = "api"
    /\ parser = ParserOff
    /\ remote = RemoteOff
    /\ view \in {[pc |-> "new", data |-> d, dynamic |-> dyn,
                  io |-> [relative_keys |-> rel, keys_mapping |-> st,
                          default_relative_key |-> drk],
                  v |-> <<>>, key |-> "", got |-> None,
                  wkey |-> "", target |-> <<>>, raised |-> FALSE]
                 : d \in RecordsIn, rel \in RelativeKeysIn, st \in StaticMappingsIn,
                   dyn \in DynamicMappingsIn, drk \in DefaultRelativeKeysIn}

ProxyNext == BuildProxyData \/ GetItem \/ SetItem

ProxySpec == ProxyInit /\ [][ProxyNext]_vars

\* ------------------------------------------------------------------
\* a read of view.key through a ProxyDict that has not been written to
ReadThroughProxy == view.pc = "read" /\ view.wkey = "" /\ view.v.proxy

\* the relative-key sub-dictionaries of the record that hold the key
RelativeHolders(key) ==
    {i \in DOMAIN view.io.relative_keys : key \in DOMAIN ReduceGet(view.data, view.io.relative_keys[i])}

\* the explicit mapping of the key: the dynamic one if there is one, else the
\* static one of the edge
ExplicitPath(key) ==
    IF key \in DOMAIN view.dynamic THEN view.dynamic[key] ELSE view.io.keys_mapping[key]

\* C16: key-mapping precedence.  For a key that is at the root of the record,
\* in a relative-key sub-dictionary and in the explicit mapping, a read through
\* the ProxyDict returns the value at the explicit path (and raises when the
\* path leads to no item); for a key at the root and in a relative-key
\* sub-dictionary only, it returns the value of a sub-dictionary, never the
\* root value; a dynamic mapping of a key overrides the static mapping of the
\* same key.
C16_MappingPrecedence ==
    ReadThroughProxy =>
        LET key == view.key
            explicit == key \in DOMAIN view.dynamic \cup DOMAIN view.io.keys_mapping
        IN /\ (key \in DOMAIN view.data /\ RelativeHolders(key) # {} /\ explicit) =>
                  view.got = IF CanGet(view.data, ExplicitPath(key))
                             THEN Some(recursive_get(view.data, ExplicitPath(key)))
                             ELSE None
           /\ (key \in DOMAIN view.data /\ RelativeHolders(key) # {} /\ ~explicit) =>
                  /\ \E i \in RelativeHolders(key) :
                        view.got = Some(ReduceGet(view.data, view.io.relative_keys[i])[key])
                  /\ view.got # Some(view.data[key])
           /\ (key \in DOMAIN view.dynamic /\ key \in DOMAIN view.io.keys_mapping) =>
                  /\ view.v.km[key] = view.dynamic[key]
                  /\ view.v.km[key] # view.io.keys_mapping[key]

\* the key a is at the root (1), in the relative sub-dictionary (2) and mapped
\* explicitly to other.a (4), and the read has returned 4
C16_Witness ==
    /\ ReadThroughProxy /\ view.key = "a"
    /\ "a" \in DOMAIN view.data /\ RelativeHolders("a") # {}
    /\ "a" \in DOMAIN view.io.keys_mapping /\ DOMAIN view.dynamic = {}
    /\ view.data.a = 1 /\ "a" \in DOMAIN view.data.sub /\ view.data.sub.a = 2
    /\ view.got = Some(4)

\* ------------------------------------------------------------------
\* the keys that lead to the place a KeyPath, SeqPath or ArrayItemGetter names
PlaceOfPath(kp) == IF kp.t = "aig" THEN Append(kp.path, kp.i + 1) ELSE kp.path

\* new is old but for the entry at the end of the keys
RECURSIVE SameExcept(_, _, _)
SameExcept(old, new, keys) ==
    /\ \A j \in (DOMAIN old \cup DOMAIN new) \ {Head(keys)} :
          j \in DOMAIN old /\ j \in DOMAIN new /\ old[j] = new[j]
    /\ (Len(keys) > 1 /\ Head(keys) \in DOMAIN old) =>
          /\ Head(keys) \in DOMAIN new
          /\ SameExcept(old[Head(keys)], new[Head(keys)], Tail(keys))

\* view[wkey] = Written has returned
WriteReturned == view.pc \in {"written", "read"} /\ view.wkey # "" /\ ~view.raised

\* where the write of the key has to go: its mapped path, or
\* default_relative_key + [key] for a key that was not mapped
MappedPlace ==
    LET before == build_proxy_data(view.io, view.data, view.dynamic)
    IN IF view.wkey \in DOMAIN before.km THEN before.km[view.wkey]
       ELSE SeqPath(Append(view.io.default_relative_key, view.wkey))

\* C17: writes through the view.  After view[k] = v has returned, the record
\* holds v at k's mapped path (at default_relative_key + [k] if k was not
\* mapped), every other entry of the record is as it was, k is contained in
\* the view, and a read of k through the view returns v.
C17_WriteThrough ==
    WriteReturned =>
        /\ CanGet(view.v.data, MappedPlace)
        /\ recursive_get(view.v.data, MappedPlace) = Written
        /\ SameExcept(view.data, view.v.data, PlaceOfPath(MappedPlace))
        /\ ProxyContains(view.v.km, view.wkey)
        /\ (view.pc = "read" /\ view.key = view.wkey) => view.got = Some(Written)

\* ------------------------------------------------------------------
Openers == {"[", "(", "{"}
CloserOf(c) == CASE c = "[" -> "]" [] c = "(" -> ")" [] c = "{" -> "}"

\* every closer matches the latest opener that is still open, and no opener
\* stays open; open is the sequence of the closers that are awaited
RECURSIVE Nested(_, _)
Nested(toks, open) ==
    IF toks = <<>> THEN open = <<>>
    ELSE LET c == Head(toks)
         IN IF c \in Openers THEN Nested(Tail(toks), <<CloserOf(c)>> \o open)
            ELSE IF c \in {"]", ")", "}"}
                 THEN open # <<>> /\ Head(open) = c /\ Nested(Tail(toks), Tail(open))
                 ELSE Nested(Tail(toks), open)

\* the double quotes come in pairs
QuotesMatched(toks) == Cardinality({i \in DOMAIN toks : toks[i] = "\""}) % 2 = 0

Balanced(toks) == Nested(toks, <<>>) /\ QuotesMatched(toks)

\* parse_file is past its check of the brackets of a document of brackets
BracketsChecked == parser.pc \notin {"off", "read"} /\ parser.doc.kind = "brackets"

\* C18: bracket and quote validation.  parse_file rejects, before any state
\* or edge is created, every document whose brackets are not balanced (each
\* closer matching an earlier opener of its kind, properly nested) or whose
\* double quotes are unmatched, and every balanced document passes the check.
C18_BracketValidation ==
    BracketsChecked =>
        IF Balanced(RawFile(parser.doc))
        THEN parser.pc # "failed"
        ELSE parser.pc = "failed" /\ parser.fact = NewFactory

\* ------------------------------------------------------------------
\* the line of a document of kind "multi" that has n names on a side
MultiLine == IF parser.doc.dir = "join" THEN 3 ELSE 2

\* _topology has returned from that line, or has raised on it
MultiLinePassed ==
    \/ parser.pc = "done"
    \/ parser.pc = "lines" /\ parser.ln > MultiLine
MultiLineFailed == parser.pc = "failed" /\ parser.ln = MultiLine
MultiLineSettled ==
    parser.pc # "off" /\ parser.doc.kind = "multi" /\ (MultiLinePassed \/ MultiLineFailed)

\* the transitions the line has to create: S to each name, or each name to
\* __END__
MultiFrom(i) == IF parser.doc.dir = "fan" THEN "S" ELSE ManyNames[i]
MultiTo(i) == IF parser.doc.dir = "fan" THEN ManyNames[i] ELSE "__END__"
MultiCount ==
    IF parser.doc.dir = "fan" THEN Len(parser.fact.transfers["S"])
    ELSE Cardinality({i \in 1..parser.doc.n : Len(parser.fact.transfers[ManyNames[i]]) = 1})
MultiCreated(n) ==
    /\ MultiLinePassed
    /\ MultiCount = n
    /\ \A i \in 1..n : \E t \in Range(parser.fact.transfers[MultiFrom(i)]) :
                          t.output_state = MultiTo(i)
MultiEdge(i) ==
    (CHOOSE t \in Range(parser.fact.transfers[MultiFrom(i)]) : t.output_state = MultiTo(i)).edge

\* C19: multi-edge expansion.  For a line with n names on its plural side: a
\* parenthesized morphism list of m names makes the compilation fail when
\* m # n, and otherwise (the order list, if any, having n items too) exactly n
\* transitions are created, the i-th with the i-th morphism and, for
\* one-to-many, the i-th order; without a morphism exactly n transitions with
\* the identity transform and the always-true guard are created; a line with
\* several names on both sides is rejected.
C19_MultiEdgeExpansion ==
    MultiLineSettled =>
        LET morph == parser.doc.morphs[1]
            order == parser.doc.orders[1]
            n == parser.doc.n
            one_sided == parser.doc.dir # "both"
        IN /\ ~one_sided => MultiLineFailed
           /\ (one_sided /\ morph.list /\ Len(morph.vals) # n) => MultiLineFailed
           /\ (one_sided /\ morph.list /\ Len(morph.vals) = n
                         /\ (order.list => Len(order.vals) = n)) =>
                 /\ MultiCreated(n)
                 /\ \A i \in 1..n :
                       LET m == _create_morphism(Some(<<morph.vals[i]>>))
                       IN /\ MultiEdge(i).pred_f = m.pred_f
                          /\ MultiEdge(i).morph_f = m.morph_f
                          /\ (parser.doc.dir = "fan" /\ order.list) =>
                                MultiEdge(i).order = Digits[order.vals[i]]
           /\ (one_sided /\ ~morph.given) =>
                 /\ MultiCreated(n)
                 /\ \A i \in 1..n : MultiEdge(i).pred_f = "" /\ MultiEdge(i).morph_f = ""

\* ------------------------------------------------------------------
\* the calls of Edge.morph in a history
MorphsIn(tr) == {i \in DOMAIN tr : tr[i].ev = "morph"}

\* Graph.run is in its loop, in the main loop or inside a transfer function
Running == pc \in {"run", "call"}

\* C20: abort as soon as the marker appears.  Once the record of a run holds
\* '__EXCEPTION__', set by the engine or by a transform, in the main loop or
\* inside the loop of a transfer function, no further edge transform is
\* executed in that run, the marker stays, and the run returns False.
C20_AbortOnMarker ==
    /\ [][(Running /\ HasException(data)) =>
             /\ Cardinality(MorphsIn(trace')) = Cardinality(MorphsIn(trace))
             /\ HasException(data')
             /\ pc' \in {"call", "done"}
             /\ pc' = "done" => result' = "False"]_vars
    /\ []((pc = "done" /\ HasException(data)) => result = "False")

\* graph fail on a = 0: the transform of S -> A has set the marker inside the
\* transfer function of S, the transform of S -> C was not executed, and run
\* returned False
C20_Witness ==
    /\ gid = "fail" /\ pc = "done" /\ result = "False"
    /\ HasException(data) /\ data["__EXCEPTION__"] = "failed"
    /\ \E i \in MorphsIn(trace) : trace[i].edge = "sa" /\ trace[i].where = "S"
    /\ \A i \in MorphsIn(trace) : trace[i].edge # "sc"

\* ------------------------------------------------------------------
\* the main loop of run has run a state that did not pass its join barrier
MainLoopWaits ==
    \E i \in DOMAIN trace :
        trace[i].ev = "run" /\ trace[i].where = "main" /\ trace[i].kind = "wait"

\* C21: unsatisfied join in the main loop.  When the main loop of Graph.run
\* reaches a state whose join threshold is not met, run ends by returning a
\* boolean to its caller; it does not raise.
C21_UnsatisfiedJoinReturns ==
    (pc = "done" /\ MainLoopWaits) => result \in {"True", "False"}

\* ------------------------------------------------------------------
\* the visits that have passed the join barrier of a state with outgoing
\* transitions
PassedWithTransfers(i) ==
    trace[i].ev = "run" /\ trace[i].kind \notin {"wait", "TypeError", "term"}

\* the visit a call of Edge.morph belongs to: the latest run of the state
\* whose transfer function makes the call; inside a fan-out over an array,
\* the run on the same branch or the one that made the branches
VisitsBefore(j) ==
    {i \in 1..(j - 1) : /\ trace[i].ev = "run" /\ trace[i].kind = "morph"
                        /\ trace[i].state = trace[j].where
                        /\ (trace[j].branch = -1 \/ trace[i].branch \in {trace[j].branch, -1})}
VisitOf(j) == CHOOSE i \in VisitsBefore(j) : \A k \in VisitsBefore(j) : k <= i

\* C22: the selector is evaluated once and is authoritative.  Every visit
\* that passes the join barrier of a state with outgoing transitions calls
\* the selector exactly once; a transform is executed only for a transition
\* whose selector entry was true and whose guard was true on the record of
\* that visit.
C22_SelectorAuthoritative ==
    InRun =>
        /\ \A i \in DOMAIN trace :
              trace[i].ev = "run" => (trace[i].sel <=> PassedWithTransfers(i))
        /\ \A j \in MorphsIn(trace) :
              /\ VisitsBefore(j) # {}
              /\ LET v == trace[VisitOf(j)]
                     s == v.state
                     p == PlaceOf(s, trace[j].edge)
                     selected_edges == SelectorFunc(selector[s], v.seen)
                 IN /\ p \in DOMAIN selected_edges
                    /\ selected_edges[p]
                    /\ EdgePredicate(TransfersOf(s)[p].edge, v.seen,
                                     build_dynamic_keys_mapping(v.info))

\* graph selord on a <= 0: the selector of S has chosen S -> Y alone, whose
\* transform ran, and the transform of S -> X, whose guard is true, did not
C22_Witness ==
    /\ gid = "selord" /\ pc = "done" /\ input.a <= 0
    /\ \E j \in MorphsIn(trace) : trace[j].edge = "sy" /\ trace[j].where = "S"
    /\ \A j \in MorphsIn(trace) : trace[j].edge # "sx"
    /\ \E i \in DOMAIN trace : trace[i].ev = "run" /\ trace[i].state = "S" /\ trace[i].sel

\* ------------------------------------------------------------------
\* the State objects a traversal from the root comes to, a replaced state
\* standing for the initial state of its subgraph
NextStates(s) == {Deproxy(TransfersOf(s)[i].output_state) : i \in DOMAIN TransfersOf(s)}

RECURSIVE StatesFrom(_, _)
StatesFrom(S, n) ==
    IF n = 0 THEN S ELSE StatesFrom(S \cup UNION {NextStates(s) : s \in S}, n - 1)

Reached(root) == StatesFrom({Deproxy(root)}, Cardinality(DOMAIN tlist))

\* the transitions that enter s from the states that are reached, each one
\* counted, plus the virtual entry of the root
EnteringTransitions(root, s) ==
    UNION {{<<u, i>> : i \in {j \in DOMAIN TransfersOf(u) :
                                  Deproxy(TransfersOf(u)[j].output_state) = s}} :
           u \in Reached(root)}

Arity(root, s) ==
    Cardinality(EnteringTransitions(root, s)) + (IF s = Deproxy(root) THEN 1 ELSE 0)

\* the initial state of the Graph object whose idle run is under way
IdleRoot == IF idle.graph = "sub" THEN GraphDef(gid).sub.init_state
            ELSE GraphDef(gid).init_state

\* init_graph returns from an INIT pass
InitPassEnds == pc = "idle" /\ idle.type = "INIT" /\ idle.frames = <<>>

\* C23: input arity.  When the INIT pass of a graph ends, input_edges_number
\* of every state reachable from the initial state is the number of
\* transitions entering it from reachable states, plus one for the initial
\* state; parallel transitions between the same two states count separately.
C23_InputArity ==
    InitPassEnds =>
        \A s \in Reached(IdleRoot) : input_edges_number[s] = Arity(IdleRoot, s)

\* ------------------------------------------------------------------
\* the INIT pass is about to count an arrival at a state that is still on the
\* path of the traversal: the transition just followed closes a cycle
BackEdgeArrival ==
    /\ pc = "idle" /\ idle.type = "INIT" /\ idle.frames # <<>>
    /\ IdleTop.i = 0 /\ proxy_state[IdleTop.state] = NoState
    /\ \E k \in 1..(Len(idle.frames) - 1) : idle.frames[k].state = IdleTop.state

\* C24: loop edges are all detected.  During the INIT pass every transition
\* that leads back to a state still on the traversal path increments that
\* state's looped_edges_number, and the pass never decrements it: the number
\* is at least the number of the state's incoming back edges.
C24_LoopEdgesDetected ==
    /\ [][BackEdgeArrival =>
             looped_edges_number'[IdleTop.state] = looped_edges_number[IdleTop.state] + 1]_vars
    /\ [][(pc = "idle" /\ idle.type = "INIT") =>
             \A s \in DOMAIN looped_edges_number :
                 looped_edges_number'[s] >= looped_edges_number[s]]_vars

\* graph twoloops: the INIT pass has ended and both self-loops of S are
\* counted as looped
C24_Witness ==
    /\ gid = "twoloops" /\ InitPassEnds
    /\ looped_edges_number["S"] = 2 /\ input_edges_number["S"] = 3

\* ------------------------------------------------------------------
\* C25: only cycle-closing edges count as looped.  In a graph without cycles
\* the INIT pass leaves looped_edges_number = 0 for every state, so that
\* every join state waits for all of its incoming edges.
C25_OnlyCyclesLooped ==
    (InitPassEnds /\ Acyclic(gid)) =>
        \A s \in Reached(IdleRoot) : looped_edges_number[s] = 0

\* ------------------------------------------------------------------
\* the counter a visit counts on: the scalar, or the entry of its branch
ScalarVisit(e) == e.branch = -1 \/ is_term_state[e.state]
CounterOfVisit(e) ==
    IF ScalarVisit(e) THEN activated_input_edges_number[e.state].n
    ELSE activated_input_edges_number[e.state].list[e.branch + 1]

\* C26: counter reset on passing.  Right after a state has passed its join
\* barrier, its activation counter (the scalar, or the entry of the current
\* branch) is threshold - 1 if the state has a looped incoming edge and 0
\* otherwise; hence a state with a looped edge that has passed once passes
\* again on every later arrival of the run.
C26_CounterReset ==
    (InRun /\ trace # <<>>) =>
        /\ Passed(Last(trace)) =>
              LET e == Last(trace)
              IN /\ e.count = Threshold(e)
                 /\ ScalarVisit(e) => activated_input_edges_number[e.state].int
                 /\ CounterOfVisit(e) =
                       IF looped_edges_number[e.state] # 0 THEN Threshold(e) - 1 ELSE 0
        /\ \A i, j \in RunIdx :
              (/\ i < j /\ trace[i].state = trace[j].state /\ trace[i].branch = trace[j].branch
               /\ Passed(trace[i]) /\ looped_edges_number[trace[i].state] # 0
               /\ trace[j].kind # "TypeError")
              => Passed(trace[j])

\* graph loopjoin: J, which has the looped edge J -> J and the threshold 2,
\* has just passed on the arrival of the second branch, its counter is 1, and
\* later in the run it passes again on a single arrival
C26_Witness ==
    /\ gid = "loopjoin" /\ InRun /\ trace # <<>>
    /\ Passed(Last(trace)) /\ Last(trace).state = "J"
    /\ looped_edges_number["J"] = 1 /\ Threshold(Last(trace)) = 2
    /\ CounterOfVisit(Last(trace)) = 1
    /\ Cardinality({i \in RunIdx : trace[i].state = "J" /\ Passed(trace[i])}) = 2

\* ------------------------------------------------------------------
\* init_graph has returned and the main loop of run is about to run the
\* initial state
RunPassStarts == pc = "run" /\ trace = <<>>

RECURSIVE idle_run_INIT(_, _, _)
RECURSIVE idle_run_transfers(_, _, _, _)
idle_run_INIT(s0, hist, acc) ==
    LET s == Deproxy(s0)
        counted == [acc EXCEPT !.input_edges_number[s] = @ + 1]
        ts == SortByOrder(TransfersOf(s))
    IN IF counted.input_edges_number[s] # 1
       THEN IF Range(acc.history[s][1]) \subseteq Range(hist)
            THEN [counted EXCEPT !.looped_edges_number[s] = @ + 1]
            ELSE counted
       ELSE LET first == [counted EXCEPT !.history[s] = Some(hist)]
            IN IF Len(ts) = 1 THEN idle_run_INIT(ts[1].output_state, hist, first)
               ELSE idle_run_transfers(ts, 1, hist, first)

idle_run_transfers(ts, i, hist, acc) ==
    IF i > Len(ts) THEN acc
    ELSE LET next_state == ts[i].output_state
         IN idle_run_transfers(ts, i + 1, hist,
                               idle_run_INIT(next_state, Append(hist, next_state), acc))

\* the arities a single INIT pass gives to the graph as it is now
SingleInit ==
    idle_run_INIT(GraphDef(gid).init_state, <<GraphDef(gid).init_state>>,
                  [input_edges_number |-> [s \in DOMAIN tlist |-> 0],
                   looped_edges_number |-> [s \in DOMAIN tlist |-> 0],
                   history |-> [s \in DOMAIN tlist |-> None]])

\* C28: join arities are computed once.  At the start of every run pass,
\* input_edges_number and looped_edges_number of every state are the values
\* that a single INIT traversal of the final graph gives: later runs,
\* compiling the graph through the parser, and replacing a state with a
\* subgraph do not increment them again.
C28_AritiesComputedOnce ==
    RunPassStarts =>
        \A s \in DOMAIN tlist :
            /\ input_edges_number[s] = SingleInit.input_edges_number[s]
            /\ looped_edges_number[s] = SingleInit.looped_edges_number[s]

\* the transitions of graph g that enter its replaced state from outside its
\* body, and the transitions of the subgraph that stands for it
IncomingOfReplaced(g) ==
    UNION {{GraphDef(g).transfers[u][i].edge.id :
                i \in {j \in DOMAIN GraphDef(g).transfers[u] :
                          GraphDef(g).transfers[u][j].output_state = GraphDef(g).sub.state}} :
           u \in GraphDef(g).states}

SubgraphStates(g) ==
    ReachableFrom(g, {GraphDef(g).sub.init_state}, Cardinality(GraphDef(g).states))
        \cup {GraphDef(g).sub.init_state}

BodyOfReplaced(g) ==
    UNION {{GraphDef(g).transfers[u][i].edge.id : i \in DOMAIN GraphDef(g).transfers[u]} :
           u \in SubgraphStates(g)}

ReplacedJoin(g) ==
    /\ HasSub(g)
    /\ Acyclic(g)
    /\ Cardinality(IncomingOfReplaced(g)) >= 2

\* C29: a replaced state is still a join barrier.  In a run that completes
\* on a graph whose replaced state has k >= 2 non-loop incoming transitions,
\* every transition of the subgraph's body is executed exactly once, and
\* after all k incoming transitions.
C29_ReplacedStateIsBarrier ==
    (pc = "done" /\ result = "True" /\ ReplacedJoin(gid)) =>
        \A b \in BodyOfReplaced(gid) :
            /\ MorphCount(b) = 1
            /\ \A e \in IncomingOfReplaced(gid) :
                   /\ MorphCount(e) = 1
                   /\ \A i \in MorphIdx(e), j \in MorphIdx(b) : i < j

\* the states the main loop of Graph.run has entered in this run, in order
IsMainEntry(e) == e.ev = "run" /\ e.where = "main"
EnteredByMain == [i \in DOMAIN SelectSeq(trace, IsMainEntry) |->
                     SelectSeq(trace, IsMainEntry)[i].via]
LoggedStates == [i \in DOMAIN execution_path |-> execution_path[i].state]

\* C30: the execution log holds the most recent run only.  After Graph.run
\* has returned, execution_path has exactly one entry per state entered by
\* the main loop during that run, in order of entry, and no entry of an
\* earlier run of the same Graph object.
C30_LogOfLastRun == pc = "done" => LoggedStates = EnteredByMain

\* the copies a step leaves in the hands of the listener and in the log
KeptEvents == IF runs' = runs THEN DOMAIN events \cap DOMAIN events' ELSE {}
KeptEntries == IF copies' = copies THEN DOMAIN execution_path \cap DOMAIN execution_path' ELSE {}

\* C31: snapshot isolation.  The data delivered to a listener and the data
\* stored in an execution_path entry is a snapshot of the record at that
\* instant: no later step of the engine, a transform that changes a nested
\* array in place included, changes the data of a snapshot already taken.
C31_SnapshotIsolation ==
    [][/\ \A i \in KeptEvents : events'[i].data = events[i].data
       /\ \A i \in KeptEntries : execution_path'[i].data = execution_path[i].data]_vars

\* the arrivals at state s in this run, and the state_enter events that name s
Arrivals(s) == {i \in DOMAIN trace : IsRun(trace[i]) /\ trace[i].via = s}
MainArrivals(s) == {i \in Arrivals(s) : trace[i].where = "main"}
Enters(s) == {i \in DOMAIN events : events[i].event = "state_enter" /\ events[i].state = s}

\* C32: state_enter precedes every activation.  Every arrival at a state
\* during the run pass, arrivals inside the continuation loop of a fan-out
\* included, has its own state_enter event, received by the listener no
\* later than the step that increments the activation counter.
C32_EnterBeforeActivation ==
    \A s \in DOMAIN tlist : Cardinality(Arrivals(s)) <= Cardinality(Enters(s))

\* the transfer that the next step of _morph calls, if it calls one
Calling ==
    IF pc = "call" /\ stack # <<>> /\ ret = None
    THEN IF Top.at = "for" /\ Top.k <= Len(Top.cur_transfers) THEN <<Top.cur_transfers[Top.k]>>
         ELSE IF Top.at = "final" THEN <<Top.next_transfers[1]>>
         ELSE <<>>
    ELSE <<>>

\* a mandatory key of the transfer's edge is absent from the mapped view
MissingMandatory(t) ==
    /\ t.kind = "partial"
    /\ \E k \in Range(t.transfers[1].edge.mandatory_keys) :
           k \notin DOMAIN ProxyKeysMappings(data, t.dkm)

\* C33: the mandatory-key check precedes the transform.  When an edge is
\* called and one of its mandatory keys is absent from the mapped view,
\* morph raises KeyError: the record is left as it was, no transform is
\* executed, and the edge is not passed over in silence.
C33_MandatoryBeforeTransform ==
    [][(Calling # <<>> /\ MissingMandatory(Calling[1])) =>
          /\ result' = "KeyError" /\ pc' = "done"
          /\ data' = data
          /\ trace' = trace]_vars

C33_Witness ==
    /\ gid = "mand" /\ pc = "done" /\ result = "KeyError"
    /\ "c" \notin DOMAIN input
    /\ MorphCount("bm") = 0
    /\ data.a = input.a /\ data.b = input.b

\* C34: the default guard is always true.  On every visit of a state that
\* asks the guards, the guard of every transition created without a
\* predicate is true on the record of that visit, whatever the record holds.
C34_DefaultGuardTrue ==
    \A i \in DOMAIN trace :
        GuardsAsked(i) =>
            \A p \in DOMAIN TransfersOf(trace[i].state) :
                TransfersOf(trace[i].state)[p].edge.pred_f = "" =>
                    EdgePredicate(TransfersOf(trace[i].state)[p].edge, trace[i].seen,
                                  build_dynamic_keys_mapping(trace[i].info))

\* init_graph is under way inside run
InitStep == pc = "idle" /\ idle.after = "run"
DirKeys == {"__CURRENT_WORKING_DIR__", "__WORKING_DIR__"}

\* C35: the working-directory keys.  The initialization step of run changes
\* no key of the record other than '__CURRENT_WORKING_DIR__', which it sets
\* on every run, and '__WORKING_DIR__', which gets the same value only if
\* the key was absent and keeps its value if it was present.
C35_WorkingDirKeys ==
    [][InitStep =>
          /\ DOMAIN data' \subseteq DOMAIN data \cup DirKeys
          /\ \A k \in DOMAIN data \ DirKeys : k \in DOMAIN data' /\ data'[k] = data[k]
          /\ pc' = "idle" => data' = data
          /\ pc' = "run" =>
                /\ data'["__CURRENT_WORKING_DIR__"] = cwd
                /\ data'["__WORKING_DIR__"] =
                      IF "__WORKING_DIR__" \in DOMAIN data THEN data["__WORKING_DIR__"] ELSE cwd]_vars

C35_Witness ==
    /\ RunPassStarts
    /\ "__WORKING_DIR__" \in DOMAIN input
    /\ data["__WORKING_DIR__"] = input["__WORKING_DIR__"]
    /\ data["__WORKING_DIR__"] # data["__CURRENT_WORKING_DIR__"]
    /\ data["__CURRENT_WORKING_DIR__"] = cwd

\* =============================== edge.py: UploadOnRemoteEdge and
\* DownloadFromRemoteEdge.  A path is the sequence of its components, an
\* absolute one starting with "/".  comm.copy either returns the new path or
\* raises CommunicationError: which of the two is up to the executor.
IsAbs(path) == path # <<>> /\ path[1] = "/"

\* os.path.join(a, b): b alone when b is absolute
os_path_join(a, b) == IF IsAbs(b) THEN b ELSE a \o b

\* '/'.join([a, b])
slash_join(a, b) == a \o b

\* what comm.copy(from_, to_) returns: the copy inside the directory to_
comm_copy(from_, to_) == Append(to_, Last(from_))

LocalDir == <<"/", "work">>
RemoteDir == <<"/", "remote">>

PathKeys == {<<"f">>, <<"f", "g">>}

\* the values of a key of a download edge: None, '*', a path, a list of paths
NoFile == [t |-> "none"]
AllFiles == [t |-> "star"]
OneFile(path) == [t |-> "path", path |-> path]
FileList(paths) == [t |-> "list", paths |-> paths]

UploadValues == {OneFile(<<"/", "in.txt">>), OneFile(<<"in.txt">>)}
DownloadValues == {NoFile, AllFiles, OneFile(<<"out.txt">>),
                   FileList(<<<<"a.out">>, <<"b.out">>>>)}
Listings == {<<>>, <<<<"a.out">>>>, <<<<"a.out">>, <<"b.out">>>>}

DirsOf == [__WORKING_DIR__ |-> LocalDir, __REMOTE_WORKING_DIR__ |-> RemoteDir]

NewRemote(kind, keys, d, update_paths, already) ==
    [pc |-> "new", kind |-> kind, keys |-> keys, update_paths |-> update_paths,
     already |-> already, data |-> d, i |-> 0, files |-> <<>>, j |-> 0, star |-> FALSE,
     local_path |-> None, calls |-> <<>>]

CopyCall(key, attempt, from_, to_, mode_, raised) ==
    [key |-> key, attempt |-> attempt, from_ |-> from_, to_ |-> to_, mode |-> mode_,
     raised |-> raised]

RemoteKey == remote.keys[remote.i]

\* UploadOnRemoteEdge.execute up to its loop; already holds the value of
\* data[self._already_remote_path_key] when the edge has such a key
UploadExecute ==
    /\ remote.pc = "new" /\ remote.kind = "upload"
    /\ remote' = IF remote.already # None /\ remote.already[1]
                 THEN [remote EXCEPT !.pc = "returned"]
                 ELSE [remote EXCEPT !.pc = "upload", !.i = 1]
    /\ UNCHANGED <<view, parser, engineVars>>

\* data[key] = self._comm.copy(data[key], remote_working_dir, mode='from_local')
UploadCopy ==
    /\ remote.pc = "upload"
    /\ IF remote.i > Len(remote.keys)
       THEN remote' = [remote EXCEPT !.pc = "returned"]
       ELSE \E raised \in BOOLEAN :
               LET from_ == remote.data[RemoteKey].path
                   to_ == remote.data["__REMOTE_WORKING_DIR__"]
                   call == CopyCall(RemoteKey, 1, from_, to_, "from_local", raised)
               IN remote' = IF raised
                            THEN [remote EXCEPT !.pc = "retry", !.calls = Append(@, call)]
                            ELSE [remote EXCEPT !.data[RemoteKey] = OneFile(comm_copy(from_, to_)),
                                                !.i = @ + 1, !.calls = Append(@, call)]
    /\ UNCHANGED <<view, parser, engineVars>>

\* except CommunicationError: the copy of os.path.join(working_dir, data[key])
UploadRetry ==
    /\ remote.pc = "retry"
    /\ \E raised \in BOOLEAN :
          LET working_dir == remote.data["__WORKING_DIR__"]
              from_ == os_path_join(working_dir, remote.data[RemoteKey].path)
              to_ == remote.data["__REMOTE_WORKING_DIR__"]
              call == CopyCall(RemoteKey, 2, from_, to_, "from_local", raised)
              remote_path == comm_copy(from_, to_)
          IN remote' = IF raised
                       THEN [remote EXCEPT !.pc = "raised", !.calls = Append(@, call)]
                       ELSE [remote EXCEPT
                                !.data[RemoteKey] = IF remote.update_paths
                                                    THEN OneFile(remote_path) ELSE @,
                                !.pc = "upload", !.i = @ + 1, !.calls = Append(@, call)]
    /\ UNCHANGED <<view, parser, engineVars>>

\* DownloadFromRemoteEdge.execute up to its loop
DownloadExecute ==
    /\ remote.pc = "new" /\ remote.kind = "download"
    /\ remote' = [remote EXCEPT !.pc = "download", !.i = 1]
    /\ UNCHANGED <<view, parser, engineVars>>

\* for key in self._remote_paths_keys: the files to download for the key
DownloadKey ==
    /\ remote.pc = "download"
    /\ IF remote.i > Len(remote.keys)
       THEN remote' = [remote EXCEPT !.pc = "returned"]
       ELSE LET output_file_or_dir == remote.data[RemoteKey]
                working_dir == remote.data["__WORKING_DIR__"]
            IN IF output_file_or_dir.t = "none"
               THEN remote' = [remote EXCEPT !.i = @ + 1]
               ELSE IF output_file_or_dir.t = "star"
               THEN \E paths \in Listings :
                       remote' = [remote EXCEPT
                           !.pc = "files", !.files = paths, !.j = 1, !.star = TRUE,
                           !.local_path = Some(FileList([n \in DOMAIN paths |->
                                                   slash_join(working_dir, paths[n])]))]
               ELSE remote' = [remote EXCEPT
                        !.pc = "files", !.j = 1, !.star = FALSE, !.local_path = None,
                        !.files = IF output_file_or_dir.t = "list"
                                  THEN output_file_or_dir.paths
                                  ELSE <<output_file_or_dir.path>>]
    /\ UNCHANGED <<view, parser, engineVars>>

\* self._comm.copy(file_or_dir, working_dir, mode='from_remote'): no handler
\* is around the call
DownloadCopy ==
    /\ remote.pc = "files" /\ remote.j <= Len(remote.files)
    /\ \E raised \in BOOLEAN :
          LET from_ == slash_join(remote.data["__REMOTE_WORKING_DIR__"], remote.files[remote.j])
              to_ == remote.data["__WORKING_DIR__"]
              call == CopyCall(RemoteKey, 1, from_, to_, "from_remote", raised)
          IN remote' = IF raised
                       THEN [remote EXCEPT !.pc = "raised", !.calls = Append(@, call)]
                       ELSE [remote EXCEPT
                                !.local_path = IF remote.star THEN @
                                               ELSE Some(OneFile(comm_copy(from_, to_))),
                                !.j = @ + 1, !.calls = Append(@, call)]
    /\ UNCHANGED <<view, parser, engineVars>>

\* if self._update_paths: data[key] = local_path
DownloadAssign ==
    /\ remote.pc = "files" /\ remote.j > Len(remote.files)
    /\ remote' = [remote EXCEPT
                     !.data[RemoteKey] = IF ~remote.update_paths THEN @
                                         ELSE IF remote.local_path = None THEN NoFile
                                         ELSE remote.local_path[1],
                     !.pc = "download", !.i = @ + 1]
    /\ UNCHANGED <<view, parser, engineVars>>

RemoteInit ==
    /\ EngineInit /\ gid = "seq" /\ mode = "api"
    /\ parser = ParserOff
    /\ view = ViewOff
    /\ remote \in
         {NewRemote("upload", keys, d @@ DirsOf, u, None) :
             keys \in PathKeys, d \in [{"f", "g"} -> UploadValues], u \in BOOLEAN}
         \cup {NewRemote("upload", keys, d @@ DirsOf, u, Some(b)) :
             keys \in PathKeys, d \in [{"f", "g"} -> UploadValues], u \in BOOLEAN,
             b \in BOOLEAN}
         \cup {NewRemote("download", keys, d @@ DirsOf, u, None) :
             keys \in PathKeys, d \in [{"f", "g"} -> DownloadValues], u \in BOOLEAN}

RemoteNext ==
    \/ UploadExecute
    \/ UploadCopy
    \/ UploadRetry
    \/ DownloadExecute
    \/ DownloadKey
    \/ DownloadCopy
    \/ DownloadAssign

RemoteSpec == RemoteInit /\ [][RemoteNext]_vars

\* the copies that raised at the first attempt for a key
FirstFailures == {n \in DOMAIN remote.calls :
                     remote.calls[n].raised /\ remote.calls[n].attempt = 1}
Retries == {n \in DOMAIN remote.calls : remote.calls[n].attempt = 2}

\* C36: retry as a relative path, exactly once.  When the executor's copy
\* raises a communication failure for a key's path, the edge, upload or
\* download, does not fail: it copies once more with the path taken relative
\* to the working directory, and only a failure of that second copy leaves
\* the edge.
C36_RetryOnce ==
    /\ \A n \in FirstFailures :
          /\ ~(remote.pc = "raised" /\ n = Len(remote.calls))
          /\ n = Len(remote.calls) => remote.pc = "retry"
          /\ n < Len(remote.calls) =>
                /\ remote.calls[n + 1].attempt = 2
                /\ remote.calls[n + 1].key = remote.calls[n].key
                /\ remote.calls[n + 1].from_ =
                      os_path_join(remote.data["__WORKING_DIR__"], remote.calls[n].from_)
    /\ \A n \in Retries :
          /\ n - 1 \in FirstFailures
          /\ remote.calls[n].raised => remote.pc = "raised" /\ n = Len(remote.calls)

\* the interpreter goes on with a traversal it has started
FairSpec == Spec /\ WF_vars(IdleEnter \/ IdleNext \/ IdleReturn)

\* idle_run(INIT) has been called on a State object that is not a proxy, and
\* the step at hand is its bookkeeping; the step goes on to the outgoing
\* transitions of the state
InitVisit ==
    /\ pc = "idle" /\ idle.type = "INIT" /\ idle.frames # <<>> /\ IdleTop.i = 0
    /\ proxy_state[IdleTop.state] = NoState
Expands ==
    /\ pc' = "idle" /\ Len(idle'.frames) = Len(idle.frames)
    /\ Last(idle'.frames).i = 1

\* C37: the INIT pass terminates and expands each state once.  An INIT
\* traversal that has started comes to its end, cycles or not; it follows
\* the outgoing transitions of a state at the first visit of the state and
\* at no other, and at its end every reachable state has been visited.
C37_InitTerminates ==
    /\ (pc = "idle" /\ idle.type = "INIT") ~> (pc # "idle")
    /\ [][InitVisit => (Expands <=> input_edges_number[IdleTop.state] = 0)]_vars
    /\ [](InitPassEnds => \A s \in Reached(IdleRoot) : input_edges_number[s] >= 1)
    /\ [](idle.type = "INIT" => result # "RecursionError")

C37_Witness ==
    /\ gid = "twoloops" /\ InitPassEnds
    /\ input_edges_number["S"] = 3
    /\ \A s \in Reached(IdleRoot) : input_edges_number[s] >= 1

CleanupPass == pc = "idle" /\ idle.type = "CLEANUP"

\* C38: the CLEANUP pass terminates.  The CLEANUP traversal that init_graph
\* starts before the second and every later run comes to its end on every
\* graph, graphs with cycles and states with two loop edges included: its
\* recursion never runs out of stack, and the run pass follows.
C38_CleanupTerminates ==
    /\ CleanupPass ~> (pc = "run")
    /\ [][CleanupPass => result' # "RecursionError"]_vars

\* the visits of state s that have produced a transfer function in which the
\* transition at place p of the state is selected
SelectingVisits(s, p) ==
    {i \in DOMAIN trace :
        /\ trace[i].ev = "run" /\ trace[i].kind = "morph" /\ trace[i].state = s
        /\ LET selected_edges == SelectorFunc(selector[s], trace[i].seen)
           IN /\ p \in DOMAIN selected_edges
              /\ selected_edges[p]
              /\ EdgePredicate(TransfersOf(s)[p].edge, trace[i].seen,
                               build_dynamic_keys_mapping(trace[i].info))}

ExecutionsOf(s, p) ==
    {j \in MorphsIn(trace) : trace[j].where = s /\ trace[j].edge = TransfersOf(s)[p].edge.id}

\* C39: no branch is abandoned on success.  When run has returned True,
\* every transition selected on a visit of its state during the run has had
\* its transform executed for that visit: a branch that reaches a state
\* without outgoing transitions does not end the run for the branches that
\* are still pending.
C39_NoBranchAbandoned ==
    (pc = "done" /\ result = "True") =>
        \A s \in DOMAIN tlist :
            \A p \in DOMAIN TransfersOf(s) :
                Cardinality(ExecutionsOf(s, p)) >= Cardinality(SelectingVisits(s, p))

\* ------------------------------------------------------------------
\* no arrival of the run so far carried an ImplicitParallelizationInfo
NoImplicitArrival == \A i \in RunIdx : trace[i].branch = -1

\* C40: counter bounds.  Outside implicit parallelization, in every reachable
\* state every state's activation counter is an integer between 0 and
\* input_edges_number - looped_edges_number: the counter never overshoots the
\* threshold that _ready_to_transfer tests by equality.
C40_CounterBounds ==
    NoImplicitArrival =>
        \A s \in DOMAIN tlist :
            activated_input_edges_number[s].int =>
                /\ 0 <= activated_input_edges_number[s].n
                /\ activated_input_edges_number[s].n
                      <= input_edges_number[s] - looped_edges_number[s]

\* a join state that waits below its threshold, and a state with a looped
\* edge that has passed and keeps threshold - 1
C40_Witness ==
    /\ pc = "run" /\ NoImplicitArrival
    /\ \E s \in DOMAIN tlist :
          /\ activated_input_edges_number[s] = IntCounter(1)
          /\ input_edges_number[s] - looped_edges_number[s] = 2
          /\ \E i \in RunIdx : trace[i].state = s /\ trace[i].kind = "wait"

====
